---- MODULE Spec2Model ----
(***************************************************************************)
(* Soko artifact synchronisation engine: push / pull between a local store *)
(* (filesystem) and a remote store (S3 bucket).                            *)
(*                                                                         *)
(* Strings are sequences of tokens.  A token is an indivisible piece of    *)
(* text; the tokens ".json", "/" and "." are the only ones the code's      *)
(* string operations (replace, endsWith, includes, startsWith) look for,   *)
(* every other token contains none of them.                                *)
(***************************************************************************)
EXTENDS Integers, Sequences, FiniteSets, TLC

\* ------------------------------------------------------------------------
\* Bounds of the model
\* ------------------------------------------------------------------------
MaxCalls == 3
MaxFaults == 1

\* ------------------------------------------------------------------------
\* String helpers (JavaScript String methods on token sequences)
\* ------------------------------------------------------------------------
NoValue == <<"undefined">>

StartsWith(s, prefix) ==
  /\ Len(prefix) <= Len(s)
  /\ SubSeq(s, 1, Len(prefix)) = prefix

EndsWith(s, suffix) ==
  /\ Len(suffix) <= Len(s)
  /\ SubSeq(s, Len(s) - Len(suffix) + 1, Len(s)) = suffix

Includes(s, tok) == \E i \in 1..Len(s) : s[i] = tok

\* String.prototype.replace(pattern, "") with a string pattern: removes the
\* FIRST occurrence of the pattern, wherever it is.
ReplaceFirst(s, pat) ==
  IF \E i \in 1..(Len(s) - Len(pat) + 1) : SubSeq(s, i, i + Len(pat) - 1) = pat
  THEN LET i == CHOOSE k \in 1..(Len(s) - Len(pat) + 1) :
                  /\ SubSeq(s, k, k + Len(pat) - 1) = pat
                  /\ \A j \in 1..(k - 1) : SubSeq(s, j, j + Len(pat) - 1) # pat
       IN SubSeq(s, 1, i - 1) \o SubSeq(s, i + Len(pat), Len(s))
  ELSE s

\* path.dirname on a path with at least one "/" separator
Dirname(p) ==
  LET idx == {i \in 1..Len(p) : p[i] = "/"}
  IN IF idx = {} THEN <<".">>
     ELSE LET last == CHOOSE i \in idx : \A j \in idx : j <= i
          IN IF last = 1 THEN <<"/">> ELSE SubSeq(p, 1, last - 1)

Range(s) == {s[i] : i \in 1..Len(s)}

\* a set as a sequence, in some fixed order
RECURSIVE SetToSeq(_)
SetToSeq(S) ==
  IF S = {} THEN <<>>
  ELSE LET x == CHOOSE y \in S : TRUE IN <<x>> \o SetToSeq(S \ {x})

\* ------------------------------------------------------------------------
\* SHA-256, idealised: an injective map from the hashed byte string to a
\* 64-digit lowercase hex string (a hash without collisions on the inputs
\* of the model).  The digits are written least significant first, so that
\* the first 12 digits already separate the inputs of the model.
\* ------------------------------------------------------------------------
HexDigits ==
  <<"0", "1", "2", "3", "4", "5", "6", "7", "8", "9", "a", "b", "c", "d", "e", "f">>

HashAlphabet == <<"M1", "M2", "raw">>

TokenCode(t) == CHOOSE i \in 1..Len(HashAlphabet) : HashAlphabet[i] = t

RECURSIVE Encode(_)
Encode(bytes) ==
  IF bytes = <<>> THEN 0
  ELSE TokenCode(Head(bytes)) + (Len(HashAlphabet) + 1) * Encode(Tail(bytes))

RECURSIVE HexDigitAt(_, _)
HexDigitAt(n, i) == IF i = 1 THEN HexDigits[(n % 16) + 1] ELSE HexDigitAt(n \div 16, i - 1)

DigestLength == 64

Sha256Hex(bytes) == [i \in 1..DigestLength |-> HexDigitAt(Encode(bytes), i)]

\* the digest of a whole file: the texts are numbered after every metadata
\* string of the model, a file being never equal to a metadata string
TextCode(bytes) == ((Len(HashAlphabet) + 1) ^ 8) + bytes

Sha256HexOfText(bytes) == [i \in 1..DigestLength |-> HexDigitAt(TextCode(bytes), i)]

\* ------------------------------------------------------------------------
\* JSON values.  A JSON object whose key order matters is a sequence of
\* [key, value] entries in insertion order; the text of a file is
\* JsonText(value) when it is well-formed JSON and PlainText(..) when not.
\* ------------------------------------------------------------------------
Keys(obj) == [i \in 1..Len(obj) |-> obj[i].key]

ObjectValues(obj) == [i \in 1..Len(obj) |-> obj[i].value]

HasKey(obj, k) == \E i \in 1..Len(obj) : obj[i].key = k

Get(obj, k) == obj[CHOOSE i \in 1..Len(obj) : obj[i].key = k].value

\* obj[k] = v on an object: an existing key keeps its position, a new key
\* is appended
ObjSet(obj, k, v) ==
  IF HasKey(obj, k)
  THEN [i \in 1..Len(obj) |-> IF obj[i].key = k THEN [key |-> k, value |-> v] ELSE obj[i]]
  ELSE Append(obj, [key |-> k, value |-> v])

JsonText(value) == [kind |-> "json", value |-> value]

PlainText(words) == [kind |-> "text", value |-> [words |-> words]]

IsJsonText(text) == text.kind = "json"

\* JSON.stringify / JSON.parse
JSONStringify(value) == JsonText(value)

JSONParse(text) == text.value

\* the JSON value null
JsonNull == [null |-> TRUE]

\* ------------------------------------------------------------------------
\* Build outputs on the developer's disk (read only by push)
\* ------------------------------------------------------------------------
HARDHAT_COMPILER_OUTPUT_FORMAT == "hh-sol-build-info-1"
FORGE_COMPILER_OUTPUT_WITH_BUILD_INFO_OPTION_FORMAT == "ethers-rs-sol-build-info-1"
FORGE_COMPILER_DEFAULT_OUTPUT_FORMAT == "forge-v1.6-default"

Join(dir, name) == dir \o <<"/">> \o name

File(text) == [type |-> "file", content |-> text]

Dir(entries) == [type |-> "dir", entries |-> entries]

SolcContract(metadata, code) == [metadata |-> metadata, evm |-> code]

SolcOutput(contracts) == [contracts |-> contracts]

\* output.contracts of a build with one contract per source file, the source
\* files in the order of the list
ContractsOf(list) ==
  [i \in 1..Len(list) |->
     [key |-> list[i].path,
      value |-> << [key |-> list[i].name,
                    value |-> SolcContract(list[i].metadata, "bytecode")] >>]]

CounterContracts(metadata) ==
  ContractsOf(<< [path |-> <<"Counter.sol">>, name |-> <<"Counter">>, metadata |-> metadata] >>)

\* the contracts A (A.sol, metadata M1) and B (B.sol, metadata M2), listed in
\* the given order
ListOf(order) ==
  [i \in 1..Len(order) |->
     [path |-> << order[i] >> \o <<".sol">>, name |-> << order[i] >>,
      metadata |-> IF order[i] = "A" THEN <<"M1">> ELSE <<"M2">>]]

HardhatBuildInfo(id, contracts) ==
  [id |-> id, _format |-> HARDHAT_COMPILER_OUTPUT_FORMAT, solcLongVersion |-> <<"0.8.28">>,
   input |-> [language |-> <<"Solidity">>, sources |-> Range(Keys(contracts))],
   output |-> SolcOutput(contracts)]

ForgeBuildInfo(id, contracts) ==
  [id |-> id,
   source_id_to_path |->
     [i \in 1..Len(contracts) |-> [key |-> ToString(i), value |-> contracts[i].key]],
   language |-> <<"Solidity">>, _format |-> FORGE_COMPILER_OUTPUT_WITH_BUILD_INFO_OPTION_FORMAT,
   solcLongVersion |-> <<"0.8.28">>,
   input |-> [language |-> <<"Solidity">>, sources |-> Range(Keys(contracts)),
              version |-> <<"0.8.28">>],
   output |-> SolcOutput(contracts)]

ForgeManifest(id, paths) ==
  [id |-> id,
   source_id_to_path |-> [i \in 1..Len(paths) |-> [key |-> ToString(i), value |-> paths[i]]],
   language |-> <<"Solidity">>]

ForgeContractFile(path, name, rawMetadata) ==
  [abi |-> "abi", bytecode |-> "bytecode", deployedBytecode |-> "deployedBytecode",
   rawMetadata |-> rawMetadata, id |-> 0,
   metadata |-> [compiler |-> [version |-> <<"0.8.28">>], language |-> <<"Solidity">>,
                 settings |-> [compilationTarget |-> << [key |-> path, value |-> name] >>],
                 sources |-> {path}]]

PathHardhatX == <<"/", "hhx", ".json">>
PathHardhatY == <<".", "/", "hhy", ".json">>
PathForgeBuildInfo == <<"fbi">>
PathForgeDefault == <<"out">>
PathNotABuild == <<"notes", ".json">>

\* a Forge default output: <root>/build-info/f.json is the manifest and every
\* listed contract has its file <root>/<source file>/<name>.json; readdir of
\* the root lists the source files in the order of the listing
ForgeDefaultTree(root, manifest, listing) ==
  LET folder(i) == Join(root, listing[i].path)
      file(i) == Join(folder(i), listing[i].name \o <<".json">>)
      at(path, place(_)) == CHOOSE i \in DOMAIN listing : place(i) = path
  IN (root :> Dir([i \in DOMAIN listing |-> listing[i].path] \o << <<"build-info">> >>))
     @@ (Join(root, <<"build-info">>) :> Dir(<< <<"f", ".json">> >>))
     @@ (Join(Join(root, <<"build-info">>), <<"f", ".json">>) :> File(JsonText(manifest)))
     @@ [p \in {folder(i) : i \in DOMAIN listing} |->
           Dir(<< listing[at(p, folder)].name \o <<".json">> >>)]
     @@ [p \in {file(i) : i \in DOMAIN listing} |->
           File(JsonText(ForgeContractFile(listing[at(p, file)].path,
                                           listing[at(p, file)].name,
                                           listing[at(p, file)].metadata)))]

\* the same two contracts A and B written by each tool, in both orders of
\* enumeration; Forge default outputs whose manifest declares more, fewer or
\* no source paths than there are contract files, or as many but not the
\* same; files no schema accepts
BuildFixtures ==
  (<<"hhab", ".json">> :> File(JsonText(HardhatBuildInfo(<<"hh-ab">>, ContractsOf(ListOf(<<"A", "B">>))))))
  @@ (<<"hhba", ".json">> :> File(JsonText(HardhatBuildInfo(<<"hh-ba">>, ContractsOf(ListOf(<<"B", "A">>))))))
  @@ (<<"fbiab", ".json">> :> File(JsonText(ForgeBuildInfo(<<"f-ab">>, ContractsOf(ListOf(<<"A", "B">>))))))
  @@ (<<"fbiba", ".json">> :> File(JsonText(ForgeBuildInfo(<<"f-ba">>, ContractsOf(ListOf(<<"B", "A">>))))))
  @@ ForgeDefaultTree(<<"outab">>, ForgeManifest(<<"fd-ab">>, << <<"A", ".sol">>, <<"B", ".sol">> >>),
                      ListOf(<<"A", "B">>))
  @@ ForgeDefaultTree(<<"outba">>, ForgeManifest(<<"fd-ba">>, << <<"A", ".sol">>, <<"B", ".sol">> >>),
                      ListOf(<<"B", "A">>))
  @@ ForgeDefaultTree(<<"outshort">>, ForgeManifest(<<"fd-s">>, << <<"A", ".sol">>, <<"B", ".sol">> >>),
                      ListOf(<<"A">>))
  @@ ForgeDefaultTree(<<"outlong">>, ForgeManifest(<<"fd-l">>, << <<"A", ".sol">> >>),
                      ListOf(<<"A", "B">>))
  @@ ForgeDefaultTree(<<"outnone">>, ForgeManifest(<<"fd-n">>, <<>>), ListOf(<<"A">>))
  @@ ForgeDefaultTree(<<"outother">>, ForgeManifest(<<"fd-o">>, << <<"A", ".sol">>, <<"C", ".sol">> >>),
                      ListOf(<<"A", "B">>))
  @@ (<<"hybrid", ".json">> :>
        File(JsonText(HardhatBuildInfo(<<"hh-f">>, CounterContracts(<<"M1">>))
                      @@ ForgeManifest(<<"fd-h">>, << <<"Counter.sol">> >>))))
  @@ (<<"srcmap", ".json">> :> File(JsonText([source_id_to_path |-> <<>>])))
  @@ (<<"fmthh", ".json">> :> File(JsonText([format |-> [string |-> <<"hh", "-sol-build-info-9">>]])))
  @@ (<<"fmtnum", ".json">> :> File(JsonText([format |-> [number |-> 1]])))
  @@ (<<"other", ".json">> :> File(JsonText([name |-> <<"x">>])))
  @@ (<<"null", ".json">> :> File(JsonText(JsonNull)))

\* the directories lookForBuildInfoJsonFile may be given: directly inside,
\* any of the files a.json, b.json, c.txt and of the directory d.json; and
\* either no build-info entry, or a file of that name, or a build-info
\* directory with any of the files x.json, y.json, z.txt
LookCase(n) ==
  LET subset(names, code) ==
        {names[j] : j \in {k \in 1..Len(names) : (code \div (2 ^ (k - 1))) % 2 = 1}}
  IN [top |-> subset(<< <<"a", ".json">>, <<"b", ".json">>, <<"c", ".txt">>, <<"d", ".json">> >>,
                     n % 16),
      buildInfo |->
        IF n \div 16 = 0 THEN [kind |-> "absent", names |-> {}]
        ELSE IF n \div 16 = 1 THEN [kind |-> "file", names |-> {}]
        ELSE [kind |-> "dir",
              names |-> subset(<< <<"x", ".json">>, <<"y", ".json">>, <<"z", ".txt">> >>,
                               (n \div 16) - 2)]]

LookTree(root, case) ==
  LET sub == Join(root, <<"build-info">>)
  IN (root :> Dir(SetToSeq(case.top)
                  \o (IF case.buildInfo.kind = "absent" THEN <<>> ELSE << <<"build-info">> >>)))
     @@ [p \in {Join(root, n) : n \in case.top} |->
           IF p = Join(root, <<"d", ".json">>) THEN Dir(<<>>) ELSE File(PlainText("json"))]
     @@ [p \in {q \in {sub} : case.buildInfo.kind # "absent"} |->
           IF case.buildInfo.kind = "file" THEN File(PlainText("json"))
           ELSE Dir(SetToSeq(case.buildInfo.names))]
     @@ [p \in {Join(sub, n) : n \in case.buildInfo.names} |-> File(PlainText("json"))]

\* the directories of all the cases, the n-th one at the path look<n>, and a
\* file beside them
LookFixtures ==
  [p \in UNION {DOMAIN LookTree(<<"look", ToString(n)>>, LookCase(n)) : n \in 0..159} |->
     LookTree(SubSeq(p, 1, 2), LookCase(CHOOSE n \in 0..159 : ToString(n) = p[2]))[p]]
  @@ (<<"readme", ".txt">> :> File(PlainText("json")))

Disk ==
  (PathHardhatX :> File(JsonText(HardhatBuildInfo(<<"hh-x">>, CounterContracts(<<"M1">>)))))
  @@ (PathHardhatY :> File(JsonText(HardhatBuildInfo(<<"hh-y">>, CounterContracts(<<"M2">>)))))
  @@ (PathForgeBuildInfo :> Dir(<< <<"build-info">> >>))
  @@ (Join(PathForgeBuildInfo, <<"build-info">>) :> Dir(<< <<"f1", ".json">> >>))
  @@ (Join(Join(PathForgeBuildInfo, <<"build-info">>), <<"f1", ".json">>)
        :> File(JsonText(ForgeBuildInfo(<<"forge-1">>, CounterContracts(<<"M1">>)))))
  @@ (PathForgeDefault :> Dir(<< <<"Counter.sol">>, <<"build-info">> >>))
  @@ (Join(PathForgeDefault, <<"build-info">>) :> Dir(<< <<"f2", ".json">> >>))
  @@ (Join(Join(PathForgeDefault, <<"build-info">>), <<"f2", ".json">>)
        :> File(JsonText(ForgeManifest(<<"forge-2">>, << <<"Counter.sol">> >>))))
  @@ (Join(PathForgeDefault, <<"Counter.sol">>) :> Dir(<< <<"Counter", ".json">> >>))
  @@ (Join(Join(PathForgeDefault, <<"Counter.sol">>), <<"Counter", ".json">>)
        :> File(JsonText(ForgeContractFile(<<"Counter.sol">>, <<"Counter">>, <<"M1">>))))
  @@ (PathNotABuild :> File(PlainText("not json")))
  @@ BuildFixtures
  @@ LookFixtures

\* the paths given to push in the model
\* Forge default outputs whose manifest declares more source paths than
\* there are contract files, fewer, or none
MismatchedOutputs == { <<"outshort">>, <<"outlong">>, <<"outnone">> }

ArtifactPaths ==
  {PathHardhatX, PathHardhatY, PathForgeDefault, PathNotABuild} \cup MismatchedOutputs

Ok(value) == [success |-> TRUE, value |-> value]

Err(error) == [success |-> FALSE, error |-> error]

\* fs.readdir(path, {withFileTypes: true}) of a directory of the disk
IsFileEntry(disk, dir, name) ==
  /\ Join(dir, name) \in DOMAIN disk
  /\ disk[Join(dir, name)].type = "file"

IsDirEntry(disk, dir, name) ==
  /\ Join(dir, name) \in DOMAIN disk
  /\ disk[Join(dir, name)].type = "dir"

\* a faulty variant of the filter: the kind of the entry is not looked at
RECURSIVE JsonEntries(_, _, _)
JsonEntries(disk, entries, dir) ==
  IF entries = <<>> THEN <<>>
  ELSE (IF EndsWith(Head(entries), <<".json">>) THEN <<Head(entries)>> ELSE <<>>)
       \o JsonEntries(disk, Tail(entries), dir)

\* entries.filter((entry) => entry.isFile() && entry.name.endsWith(".json"))
RECURSIVE JsonFileEntries(_, _, _)
JsonFileEntries(disk, entries, dir) ==
  IF entries = <<>> THEN <<>>
  ELSE (IF IsFileEntry(disk, dir, Head(entries)) /\ EndsWith(Head(entries), <<".json">>)
        THEN <<Head(entries)>> ELSE <<>>) \o JsonFileEntries(disk, Tail(entries), dir)

lookForBuildInfoJsonFile(disk, inputPath) ==
  IF inputPath \notin DOMAIN disk THEN Err("CliError: path does not exist")
  ELSE IF disk[inputPath].type = "file"
  THEN IF ~EndsWith(inputPath, <<".json">>)
       THEN Err("CliError: not a .json file")
       ELSE Ok(inputPath)
  ELSE LET entries == disk[inputPath].entries
           hasBuildInfoDir ==
             \E i \in 1..Len(entries) :
               IsDirEntry(disk, inputPath, entries[i]) /\ entries[i] = <<"build-info">>
           finalFolderPath ==
             IF hasBuildInfoDir THEN Join(inputPath, <<"build-info">>) ELSE inputPath
           finalEntries == disk[finalFolderPath].entries
           jsonFiles == JsonFileEntries(disk, finalEntries, finalFolderPath)
       IN IF Len(jsonFiles) > 1 THEN Err("CliError: multiple JSON files")
          ELSE IF Len(jsonFiles) = 0 THEN Err("CliError: no JSON file")
          ELSE Ok(Join(finalFolderPath, jsonFiles[1]))

\* ------------------------------------------------------------------------
\* Identity derivation
\* ------------------------------------------------------------------------
RECURSIVE ConcatAll(_)
ConcatAll(strings) ==
  IF strings = <<>> THEN <<>> ELSE Head(strings) \o ConcatAll(Tail(strings))

\* a faulty variant of the loops: the last contract is hashed first
MetadataInReverseOrder(output) ==
  LET files == ObjectValues(output.contracts)
      perFile == [i \in 1..Len(files) |->
                    LET cs == ObjectValues(files[Len(files) + 1 - i])
                    IN ConcatAll([j \in 1..Len(cs) |-> cs[Len(cs) + 1 - j].metadata])]
  IN ConcatAll(perFile)

\* the metadata strings in the order the two nested loops visit them
MetadataInOrder(output) ==
  LET files == ObjectValues(output.contracts)
      perFile == [i \in 1..Len(files) |->
                    LET cs == ObjectValues(files[i])
                    IN ConcatAll([j \in 1..Len(cs) |-> cs[j].metadata])]
  IN ConcatAll(perFile)

IdLength == 12

deriveSokoArtifactId(output) == SubSeq(Sha256Hex(MetadataInOrder(output)), 1, IdLength)

\* ------------------------------------------------------------------------
\* Format normalisers
\* ------------------------------------------------------------------------
HardhatCompilerOutputSchema(json) ==
  /\ {"id", "_format", "solcLongVersion", "input", "output"} \subseteq DOMAIN json
  /\ json._format = HARDHAT_COMPILER_OUTPUT_FORMAT

ForgeCompilerOutputWithBuildInfoOptionSchema(json) ==
  /\ {"id", "source_id_to_path", "language", "_format", "input", "output",
      "solcLongVersion"} \subseteq DOMAIN json
  /\ json._format = FORGE_COMPILER_OUTPUT_WITH_BUILD_INFO_OPTION_FORMAT

ForgeCompilerDefaultOutputSchema(json) ==
  {"id", "source_id_to_path", "language"} \subseteq DOMAIN json

ForgeCompilerContractOutputSchema(json) ==
  {"abi", "bytecode", "deployedBytecode", "rawMetadata", "metadata", "id"}
    \subseteq DOMAIN json

SokoArtifactSchema(json) ==
  /\ {"id", "origin", "solcLongVersion", "input", "output"} \subseteq DOMAIN json
  /\ json.solcLongVersion # NoValue
  /\ json.origin._format \in {FORGE_COMPILER_DEFAULT_OUTPUT_FORMAT,
                              FORGE_COMPILER_OUTPUT_WITH_BUILD_INFO_OPTION_FORMAT,
                              HARDHAT_COMPILER_OUTPUT_FORMAT}

RECURSIVE WalkEntries(_, _, _)
WalkEntries(disk, path, entries) ==
  IF entries = <<>> THEN <<>>
  ELSE LET name == Head(entries)
       IN (IF IsDirEntry(disk, path, name) /\ name # <<"build-info">>
           THEN WalkEntries(disk, Join(path, name), disk[Join(path, name)].entries)
           ELSE IF IsFileEntry(disk, path, name) /\ EndsWith(name, <<".json">>)
           THEN << Join(path, name) >>
           ELSE <<>>) \o WalkEntries(disk, path, Tail(entries))

lookForContractArtifactPath(disk, path) ==
  IF path \in DOMAIN disk /\ disk[path].type = "dir"
  THEN WalkEntries(disk, path, disk[path].entries)
  ELSE <<>>

\* the body of the loop once the contract's compilation target is known
RecordContract(acc, contract, contractPath, contractName) ==
  [acc EXCEPT
     !.language = IF @ = NoValue THEN contract.metadata.language ELSE @,
     !.inputSources = @ \cup contract.metadata.sources,
     !.outputContracts =
        ObjSet(@, contractPath,
               ObjSet(IF HasKey(@, contractPath) THEN Get(@, contractPath) ELSE <<>>,
                      contractName,
                      SolcContract(contract.rawMetadata, contract.bytecode))),
     !.exploredContractPaths = @ \cup {contractPath}]

\* if (!solcLongVersion) solcLongVersion = contract.metadata.compiler.version
RecordVersion(acc, contract) ==
  IF acc.solcLongVersion = NoValue
  THEN [acc EXCEPT !.solcLongVersion = contract.metadata.compiler.version]
  ELSE acc

\* the compilation target must have exactly one entry, else the file is skipped
RecordTarget(acc, contract, targets) ==
  IF Len(targets) # 1 THEN acc
  ELSE RecordContract(acc, contract, targets[1].key, targets[1].value)

\* a file that does not parse as a per-contract output is skipped (continue)
ExploreContractText(acc, text) ==
  IF ~IsJsonText(text) \/ ~ForgeCompilerContractOutputSchema(JSONParse(text))
  THEN acc
  ELSE RecordTarget(RecordVersion(acc, JSONParse(text)), JSONParse(text),
                    JSONParse(text).metadata.settings.compilationTarget)

\* one iteration of the loop over the per-contract files
ExploreContractFile(disk, acc, contractArtifactPath) ==
  ExploreContractText(
    [acc EXCEPT !.additionalArtifactsPaths = Append(@, contractArtifactPath)],
    disk[contractArtifactPath].content)

RECURSIVE ExploreContractFiles(_, _, _)
ExploreContractFiles(disk, acc, paths) ==
  IF paths = <<>> THEN acc
  ELSE ExploreContractFiles(disk, ExploreContractFile(disk, acc, Head(paths)), Tail(paths))

\* the artifact rebuilt from what the loop gathered
ReconstructedArtifact(forgeBuildInfo, acc, output) ==
  [id |-> deriveSokoArtifactId(output),
   solcLongVersion |-> acc.solcLongVersion,
   origin |-> [id |-> forgeBuildInfo.id, _format |-> FORGE_COMPILER_DEFAULT_OUTPUT_FORMAT],
   input |-> [language |-> acc.language, sources |-> acc.inputSources],
   output |-> output]

\* a faulty variant of the checks: the numbers of paths are not compared
ValidateReconstructionUncounted(expectedContractPaths, acc, sokoArtifact) ==
  IF ~SokoArtifactSchema(sokoArtifact)
  THEN Err("Error: reconstructed artifact is invalid")
  ELSE Ok([artifact |-> sokoArtifact,
           additionalArtifactsPaths |-> acc.additionalArtifactsPaths])

\* the checks after the loop and the safeParse of the rebuilt artifact
ValidateReconstruction(expectedContractPaths, acc, sokoArtifact) ==
  IF Cardinality(expectedContractPaths) = 0 THEN Err("Error: Empty build info file")
  ELSE IF Cardinality(acc.exploredContractPaths) # Cardinality(expectedContractPaths)
  THEN Err("Error: explored and expected contract paths differ in number")
  ELSE IF ~SokoArtifactSchema(sokoArtifact)
  THEN Err("Error: reconstructed artifact is invalid")
  ELSE Ok([artifact |-> sokoArtifact,
           additionalArtifactsPaths |-> acc.additionalArtifactsPaths])

ReconstructFrom(forgeBuildInfo, acc) ==
  ValidateReconstruction(
    Range(ObjectValues(forgeBuildInfo.source_id_to_path)), acc,
    ReconstructedArtifact(forgeBuildInfo, acc, SolcOutput(acc.outputContracts)))

forgeDefaultBuildInfoToSokoArtifact(disk, buildInfoPath, forgeBuildInfo) ==
  ReconstructFrom(
    forgeBuildInfo,
    ExploreContractFiles(
      disk,
      [additionalArtifactsPaths |-> <<>>, exploredContractPaths |-> {},
       solcLongVersion |-> NoValue, language |-> NoValue, inputSources |-> {},
       outputContracts |-> <<>>],
      lookForContractArtifactPath(disk, Dirname(Dirname(buildInfoPath)))))

\* the Hardhat and the Forge build-info branches build the same artifact
FromCompilerOutput(json) ==
  Ok([artifact |->
        [id |-> deriveSokoArtifactId(json.output),
         origin |-> [id |-> json.id, _format |-> json._format],
         solcLongVersion |-> json.solcLongVersion,
         input |-> json.input,
         output |-> json.output],
      additionalArtifactsPaths |-> <<>>])

FromForgeDefault(mappingResult) ==
  IF ~mappingResult.success
  THEN Err("CliError: Foundry default format could not be validated")
  ELSE mappingResult

\* no format has been detected: the hints read json["source_id_to_path"] and
\* json["format"], then json["format"].startsWith("hh"); a string is
\* [string |-> tokens], any other truthy value has no startsWith method
NoFormatDetected(json) ==
  IF json = JsonNull THEN Err("TypeError: cannot read properties of null")
  ELSE IF "source_id_to_path" \in DOMAIN json
  THEN Err("CliError: seems to be in a Foundry format")
  ELSE IF "format" \notin DOMAIN json THEN Err("CliError: no supported format matches")
  ELSE IF "string" \notin DOMAIN json.format
  THEN Err("TypeError: format.startsWith is not a function")
  ELSE IF StartsWith(json.format.string, <<"hh">>)
  THEN Err("CliError: seems to be in a Hardhat format")
  ELSE Err("CliError: no supported format matches")

\* the three safeParse attempts, in the order of the code
MapParsedBuildInfo(disk, buildInfoPath, json) ==
  IF HardhatCompilerOutputSchema(json) THEN FromCompilerOutput(json)
  ELSE IF ForgeCompilerOutputWithBuildInfoOptionSchema(json) THEN FromCompilerOutput(json)
  ELSE IF ForgeCompilerDefaultOutputSchema(json)
  THEN FromForgeDefault(forgeDefaultBuildInfoToSokoArtifact(disk, buildInfoPath, json))
  ELSE NoFormatDetected(json)

mapBuildInfoToSokoArtifact(disk, buildInfoPath) ==
  IF buildInfoPath \notin DOMAIN disk \/ disk[buildInfoPath].type # "file"
  THEN Err("CliError: build info could not be read")
  ELSE IF ~IsJsonText(disk[buildInfoPath].content)
  THEN Err("CliError: build info could not be parsed as JSON")
  ELSE MapParsedBuildInfo(disk, buildInfoPath, JSONParse(disk[buildInfoPath].content))

\* steps 1 and 2 of push: the build info file is looked for, then mapped
Mapped(buildInfoPath, parsing) ==
  IF ~parsing.success THEN parsing
  ELSE Ok([buildInfoPath |-> buildInfoPath,
           artifact |-> parsing.value.artifact,
           additionalArtifactsPaths |-> parsing.value.additionalArtifactsPaths])

Located(disk, buildInfoPathResult) ==
  IF ~buildInfoPathResult.success THEN buildInfoPathResult
  ELSE Mapped(buildInfoPathResult.value,
              mapBuildInfoToSokoArtifact(disk, buildInfoPathResult.value))

\* steps 1 and 2 of push for every path of the model
Analyzed ==
  LET on(disk) ==
        [a \in ArtifactPaths \cup {PathForgeBuildInfo} |->
           Located(disk, lookForBuildInfoJsonFile(disk, a))]
  IN on(Disk)

\* ------------------------------------------------------------------------
\* Byte strings.  The stores, the streams and the calls hold a text by its
\* place in the table of all the texts of the model (the files of the disk,
\* the artifacts push builds from them, a truncated file, the empty text):
\* two places are equal exactly when the bytes are.
\* ------------------------------------------------------------------------
FilePaths(disk) == {p \in DOMAIN disk : disk[p].type = "file"}

FileTexts(disk) == {disk[p].content : p \in FilePaths(disk)}

Accepted(analyzed) == {a \in DOMAIN analyzed : analyzed[a].success}

ArtifactTexts(analyzed) ==
  {JSONStringify(analyzed[a].value.artifact) : a \in Accepted(analyzed)}

Texts ==
  SetToSeq(FileTexts(Disk) \cup ArtifactTexts(Analyzed)
           \cup {PlainText("truncated"), PlainText("")})

Place(table, text) == CHOOSE i \in DOMAIN table : table[i] = text

BytesOf(text) == Place(Texts, text)

TextOf(bytes) == Texts[bytes]

\* the empty text and what an interrupted write leaves in a file
NoBytes == BytesOf(PlainText(""))

TruncatedBytes == BytesOf(PlainText("truncated"))

\* fs.createReadStream / fs.readFile of the files of the disk
BytesOfFiles(disk) == [p \in FilePaths(disk) |-> BytesOf(disk[p].content)]

FileBytes == BytesOfFiles(Disk)

\* JSON.stringify(sokoArtifact) for every path of the model that push accepts
BytesOfArtifacts(analyzed) ==
  [a \in Accepted(analyzed) |-> BytesOf(JSONStringify(analyzed[a].value.artifact))]

ArtifactBytes == BytesOfArtifacts(Analyzed)

\* ------------------------------------------------------------------------
\* Remote store: an S3 bucket, a map from object key to object body
\* ------------------------------------------------------------------------
rootPath == <<"projects">>

IdsPrefix(project) == rootPath \o <<"/">> \o project \o <<"/", "ids", "/">>

TagsPrefix(project) == rootPath \o <<"/">> \o project \o <<"/", "tags", "/">>

IdKey(project, id) == IdsPrefix(project) \o id \o <<".json">>

TagKey(project, tag) == TagsPrefix(project) \o tag \o <<".json">>

\* removal of one leading "/" and then of one leading "./"
Sanitize(path) ==
  LET noSlash == IF StartsWith(path, <<"/">>) THEN SubSeq(path, 2, Len(path)) ELSE path
  IN IF StartsWith(noSlash, <<".", "/">>) THEN SubSeq(noSlash, 3, Len(noSlash)) ELSE noSlash

OriginalContentKey(project, id, path) ==
  IdsPrefix(project) \o id \o <<"/", "original-content", "/">> \o Sanitize(path)

\* the most keys one ListObjectsV2 response holds when the request names no
\* MaxKeys; the requests of the provider name none
MaxKeys == 1000

\* the tokens of the keys that fill more than one response, in the order of
\* their UTF-8 spelling
KeyAlphabet ==
  <<".json", "/", "0", "1", "2", "3", "4", "5", "6", "7", "8", "9", "a", "b", "c", "d",
    "demo", "e", "f", "ids", "original-content", "out", "projects">>

KeyRank(tok) == CHOOSE i \in 1..Len(KeyAlphabet) : KeyAlphabet[i] = tok

\* key a comes before key b in the order of a listing, compared from place i on
RECURSIVE KeyBefore(_, _, _)
KeyBefore(a, b, i) ==
  IF i > Len(a) THEN i <= Len(b)
  ELSE IF i > Len(b) THEN FALSE
  ELSE IF a[i] = b[i] THEN KeyBefore(a, b, i + 1)
  ELSE KeyRank(a[i]) < KeyRank(b[i])

\* the first response to a request that more than MaxKeys keys match: the
\* first MaxKeys of them in key order (all of them begin with the prefix)
FirstKeys(matching, prefix) ==
  LET from == Len(prefix) + 1
      ranked == {<<Cardinality({j \in matching : KeyBefore(j, k, from)}), k>> : k \in matching}
  IN [i \in 1..MaxKeys |-> (CHOOSE p \in ranked : p[1] = i - 1)[2]]

\* ListObjectsV2Command with a Prefix and no ContinuationToken, sent once:
\* the keys of the bucket under the prefix, as far as one response holds them
ListObjectsV2(bucket, prefix) ==
  LET matching == {k \in DOMAIN bucket : StartsWith(k, prefix)}
  IN IF Cardinality(matching) <= MaxKeys THEN SetToSeq(matching) ELSE FirstKeys(matching, prefix)

\* the loop over the contents of the response: a key is kept when its part
\* after the prefix ends with ".json" and holds no "/"
IdsOfKeys(keys, prefix) ==
  LET relativeKey(key) == ReplaceFirst(key, prefix)
      kept == SelectSeq(keys, LAMBDA key : /\ EndsWith(relativeKey(key), <<".json">>)
                                           /\ ~Includes(relativeKey(key), "/"))
  IN [i \in 1..Len(kept) |-> ReplaceFirst(relativeKey(kept[i]), <<".json">>)]

S3listIds(bucket, project) ==
  IdsOfKeys(ListObjectsV2(bucket, IdsPrefix(project)), IdsPrefix(project))

TagOfKey(key, prefix) == ReplaceFirst(ReplaceFirst(key, prefix), <<".json">>)

S3listTags(bucket, project) ==
  LET keys == ListObjectsV2(bucket, TagsPrefix(project))
  IN [i \in 1..Len(keys) |-> TagOfKey(keys[i], TagsPrefix(project))]

hasArtifactByTag(bucket, project, tag) == TagKey(project, tag) \in DOMAIN bucket

hasArtifactById(bucket, project, id) == IdKey(project, id) \in DOMAIN bucket

\* a faulty variant of the existence checks: every error of the store is
\* taken for a missing key
hasArtifactCatchingAll(bucket, key, storeFails) == Ok(~storeFails /\ key \in DOMAIN bucket)

\* hasArtifactByTag and hasArtifactById with the answer of the store to the
\* GetObject of the key: NoSuchKey is caught and gives false, any other error
\* is thrown again
hasArtifact(bucket, key, storeFails) ==
  IF storeFails THEN Err("StoreError") ELSE Ok(key \in DOMAIN bucket)

\* a faulty variant of PutObject: the object replaces the content of the bucket
PutObjectAlone(bucket, key, body) == (key :> body)

\* PutObjectCommand and CopyObjectCommand
PutObject(bucket, key, body) == (key :> body) @@ bucket

\* a faulty variant of CopyObject: an existing destination is kept
CopyObjectIfAbsent(bucket, key, copySource) == bucket @@ (key :> bucket[copySource])

CopyObject(bucket, key, copySource) == (key :> bucket[copySource]) @@ bucket

\* ------------------------------------------------------------------------
\* Local store: directories and files under the local root
\* ------------------------------------------------------------------------
localRootPath == <<"soko-artifacts">>

ProjectDir(project) == Join(localRootPath, project)

LocalIdsDir(project) == Join(ProjectDir(project), <<"ids">>)

LocalTagsDir(project) == Join(ProjectDir(project), <<"tags">>)

LocalIdPath(project, id) == Join(LocalIdsDir(project), id \o <<".json">>)

LocalTagPath(project, tag) == Join(LocalTagsDir(project), tag \o <<".json">>)

EmptyLocal == [dirs |-> {}, files |-> <<>>]

exists(fs, path) == path \in fs.dirs \/ path \in DOMAIN fs.files

hasId(fs, project, id) == exists(fs, LocalIdPath(project, id))

hasTag(fs, project, tag) == exists(fs, LocalTagPath(project, tag))

ensureProjectSetup(fs, project) ==
  [fs EXCEPT !.dirs = @ \cup {localRootPath, ProjectDir(project), LocalIdsDir(project),
                               LocalTagsDir(project)}]

\* names of the files directly inside a directory
FileNamesIn(fs, dir) ==
  LET prefix == dir \o <<"/">>
      inside == {p \in DOMAIN fs.files :
                   StartsWith(p, prefix) /\ ~Includes(SubSeq(p, Len(prefix) + 1, Len(p)), "/")}
  IN SetToSeq({SubSeq(p, Len(prefix) + 1, Len(p)) : p \in inside})

\* listIds / listTags of the local store: the names, without their
\* modification times; the listing throws when the directory is missing or
\* when the stat of `${name}.json` fails
LocalNames(fs, dir) ==
  LET names == FileNamesIn(fs, dir)
      stripped == [i \in 1..Len(names) |-> ReplaceFirst(names[i], <<".json">>)]
  IN IF dir \notin fs.dirs THEN Err("ENOENT")
     ELSE IF \E i \in 1..Len(stripped) : ~exists(fs, Join(dir, stripped[i] \o <<".json">>))
     THEN Err("ENOENT")
     ELSE Ok(stripped)

LocalListIds(fs, project) == LocalNames(fs, LocalIdsDir(project))

LocalListTags(fs, project) == LocalNames(fs, LocalTagsDir(project))

\* a faulty variant of the write: a failed write empties the local store
WriteFileOrRollback(fs, path, body, how) ==
  IF how = "written" THEN [fs EXCEPT !.files = (path :> body) @@ @]
  ELSE [fs EXCEPT !.files = <<>>]

\* fs.writeFile(path, stream): "written" stores the whole body, "partial"
\* leaves a truncated file behind, "none" fails before the file is opened
WriteFile(fs, path, body, how) ==
  IF how = "written" THEN [fs EXCEPT !.files = (path :> body) @@ @]
  ELSE IF how = "partial" THEN [fs EXCEPT !.files = (path :> TruncatedBytes) @@ @]
  ELSE fs

retrieveArtifact(fs, path) ==
  IF path \notin DOMAIN fs.files THEN Err("ENOENT")
  ELSE IF ~IsJsonText(TextOf(fs.files[path])) THEN Err("SyntaxError")
  ELSE IF ~SokoArtifactSchema(JSONParse(TextOf(fs.files[path]))) THEN Err("ZodError")
  ELSE Ok(JSONParse(TextOf(fs.files[path])))

retrieveArtifactById(fs, project, id) == retrieveArtifact(fs, LocalIdPath(project, id))

retrieveArtifactByTag(fs, project, tag) == retrieveArtifact(fs, LocalTagPath(project, tag))

\* the digest of the bytes of the tag file, cut to 12 characters
retrieveArtifactId(fs, project, tag) ==
  IF LocalTagPath(project, tag) \notin DOMAIN fs.files THEN Err("ENOENT")
  ELSE Ok(SubSeq(Sha256HexOfText(fs.files[LocalTagPath(project, tag)]), 1, 12))

ensureSetup(fs) == [fs EXCEPT !.dirs = @ \cup {localRootPath}]

\* the directories directly inside the local root
listProjects(fs) ==
  LET prefix == localRootPath \o <<"/">>
      inside == {d \in fs.dirs :
                   StartsWith(d, prefix) /\ ~Includes(SubSeq(d, Len(prefix) + 1, Len(d)), "/")}
  IN IF localRootPath \notin fs.dirs THEN Err("ENOENT")
     ELSE Ok(SetToSeq({SubSeq(d, Len(prefix) + 1, Len(d)) : d \in inside}))

\* ------------------------------------------------------------------------
\* listPulledArtifacts.  A row holds the project, the tag (null for a row of
\* an ID) and the id; the modification time of the file is left out, the
\* store of the model keeping none.
\* ------------------------------------------------------------------------
TagRows(fs, project, tags) ==
  [i \in 1..Len(tags) |->
     [project |-> project,
      id |-> retrieveArtifactId(fs, project, tags[i]).value,
      tag |-> [string |-> tags[i]]]]

\* the loop over the IDs of a project: an ID already visited is skipped
RECURSIVE IdRows(_, _, _)
IdRows(project, ids, listing) ==
  IF ids = <<>> THEN listing
  ELSE IF Head(ids) \in listing.idsAlreadyVisited THEN IdRows(project, Tail(ids), listing)
  ELSE IdRows(project, Tail(ids),
              [items |-> Append(listing.items,
                                [project |-> project, id |-> Head(ids), tag |-> JsonNull]),
               idsAlreadyVisited |-> listing.idsAlreadyVisited \cup {Head(ids)}])

\* one turn of the loop over the projects
ListProject(fs, project, listing, tagsResult, idsResult) ==
  IF ~tagsResult.success THEN Err("CliError: error listing the tags")
  ELSE IF \E i \in 1..Len(tagsResult.value) :
            ~retrieveArtifactId(fs, project, tagsResult.value[i]).success
  THEN Err("CliError: error retrieving the content")
  ELSE IF ~idsResult.success THEN Err("CliError: error listing the IDs")
  ELSE Ok(IdRows(project, idsResult.value,
                 [items |-> listing.items \o TagRows(fs, project, tagsResult.value),
                  idsAlreadyVisited |->
                    listing.idsAlreadyVisited
                    \cup {r.id : r \in Range(TagRows(fs, project, tagsResult.value))}]))

RECURSIVE ListProjects(_, _, _)
ListProjects(fs, projects, result) ==
  IF projects = <<>> \/ ~result.success THEN result
  ELSE ListProjects(fs, Tail(projects),
                    ListProject(fs, Head(projects), result.value,
                                LocalListTags(fs, Head(projects)),
                                LocalListIds(fs, Head(projects))))

ListedItems(result) == IF result.success THEN Ok(result.value.items) ELSE result

\* the store is the one ensureSetup leaves
listPulledArtifacts(fs) ==
  IF ~listProjects(fs).success THEN Err("CliError: error listing the projects")
  ELSE ListedItems(ListProjects(fs, listProjects(fs).value,
                                Ok([items |-> <<>>, idsAlreadyVisited |-> {}])))

\* ------------------------------------------------------------------------
\* Inputs of the operations
\* ------------------------------------------------------------------------
Clients == {"cli"}

Projects == { <<"demo">> }

IdM1 == deriveSokoArtifactId(SolcOutput(CounterContracts(<<"M1">>)))

IdM2 == deriveSokoArtifactId(SolcOutput(CounterContracts(<<"M2">>)))

\* the tags of the model: a plain tag, a tag with ".json" inside its name and
\* a tag that reads like an ID
Tags == { <<"v1">>, <<".json", "v1">>, IdM1 }

\* what pull may be asked for: everything, a tag, an ID, or a name that
\* exists nowhere
Selectors == {NoValue} \cup Tags \cup {IdM2, <<"missing">>}

\* the calls of push of the model: every build output without tag and under
\* the plain tag, forced or not; one build output under the tag with ".json"
\* inside and another one under the tag that reads like the ID of the first;
\* a file that is no build output
PushInputs ==
  [artifactPath : {PathHardhatX, PathHardhatY, PathForgeDefault}, tag : {NoValue},
   force : {FALSE}]
  \cup [artifactPath : {PathHardhatX, PathHardhatY, PathForgeDefault}, tag : { <<"v1">> },
        force : BOOLEAN]
  \cup [artifactPath : MismatchedOutputs, tag : {NoValue}, force : {FALSE}]
  \cup [artifactPath : {PathHardhatX}, tag : { <<".json", "v1">> }, force : {FALSE}]
  \cup [artifactPath : {PathHardhatY}, tag : {IdM1}, force : {FALSE}]
  \cup [artifactPath : {PathNotABuild}, tag : {NoValue}, force : {FALSE}]

\* a faulty variant of truthiness: only the empty string is falsy
TruthyAnyString(str) == str # <<>>

\* JavaScript truthiness of an optional string
Truthy(str) == str # NoValue /\ str # <<>>

\* ------------------------------------------------------------------------
\* State
\* ------------------------------------------------------------------------
VARIABLES
  remote,    \* the bucket: object key -> object body
  local,     \* the local store: directories and files
  procs,     \* per client: the running (or last finished) call of push or pull
  lastPush,  \* history: the last call of push, once it has returned its id
  nCalls,    \* number of calls of push and pull started
  nFaults,   \* number of failures of the stores or of the filesystem so far
  applied,   \* the last application of a function of the build analysis or of the listing
  provider   \* one S3BucketProvider instance: its cached client and its calls in flight

vars == <<remote, local, procs, lastPush, nCalls, nFaults, applied, provider>>

NoCall ==
  [kind |-> "none", pc |-> "done",
   project |-> NoValue, artifactPath |-> NoValue, tag |-> NoValue, force |-> FALSE,
   buildInfoPath |-> NoValue, artifactId |-> NoValue, body |-> NoBytes,
   additionalArtifactsPaths |-> <<>>,
   remoteTags |-> <<>>, remoteIds |-> <<>>, tagUnits |-> <<>>, idUnits |-> <<>>,
   outcome |-> "none", error |-> "", returnedId |-> NoValue,
   pulledTags |-> <<>>, pulledIds |-> <<>>, failedTags |-> <<>>, failedIds |-> <<>>,
   pre |-> [remote |-> <<>>, local |-> EmptyLocal],
   uploadCalls |-> 0, downloadCalls |-> 0, faults |-> 0, copyOrder |-> 0,
   lastFailed |-> [tags |-> <<>>, ids |-> <<>>],
   debugRun |-> [log |-> 0, same |-> TRUE]]

NoPush == [artifactPath |-> NoValue, project |-> NoValue, tag |-> NoValue, id |-> NoValue]

NoApplication == [fn |-> "none", arg |-> NoValue, value |-> NoValue]

\* a provider that has built no client and has no call in flight
NoProvider ==
  [role |-> FALSE, client |-> 0, clients |-> 0, assumeRoleRequests |-> 0, operations |-> <<>>]

Init ==
  /\ remote = <<>>
  /\ local = EmptyLocal
  /\ procs = [c \in Clients |-> NoCall]
  /\ lastPush = NoPush
  /\ nCalls = 0
  /\ nFaults = 0
  /\ applied = NoApplication
  /\ provider = NoProvider

\* the calls run one after the other: a call starts when no call is running
NoCallRunning == \A c \in Clients : procs[c].pc = "done"

\* a store or filesystem operation may fail while the budget of failures lasts
MayFail == IF nFaults < MaxFaults THEN BOOLEAN ELSE {FALSE}

Count(fails) == nFaults' = IF fails THEN nFaults + 1 ELSE nFaults

\* a faulty variant of toAsyncResult: with debug the error is logged and
\* thrown again
toAsyncResultRethrowing(promise, debug) ==
  [result |-> IF promise.success THEN Ok(promise.value)
              ELSE IF debug THEN Err("rethrown") ELSE Err(promise.error),
   logged |-> IF ~promise.success /\ debug THEN 1 ELSE 0]

\* toAsyncResult of a settled promise: the value or the error is turned into
\* a result; with debug an error is also written on the console
toAsyncResult(promise, debug) ==
  [result |-> IF promise.success THEN Ok(promise.value) ELSE Err(promise.error),
   logged |-> IF ~promise.success /\ debug THEN 1 ELSE 0]

\* The calls of the model run with debug = false.  Next to each call the
\* run of the same call with debug = true, against the same answers of the
\* stores, is followed: log counts what it writes on the console, same tells
\* whether every result it got so far is the one the call itself got, so
\* that it is at the same place with the same values.
InDebug(call, promise) ==
  [call EXCEPT !.debugRun =
     [log |-> @.log + toAsyncResult(promise, TRUE).logged,
      same |-> @.same /\ toAsyncResult(promise, TRUE).result
                            = toAsyncResult(promise, FALSE).result]]

\* if (debug) { console.debug(...) ... }
DebugLines(call, lines) == [call EXCEPT !.debugRun.log = @ + lines]

Throw(call, error) == [call EXCEPT !.pc = "done", !.outcome = "threw", !.error = error]

Return(call) == [call EXCEPT !.pc = "done", !.outcome = "returned"]

\* the next state of a call of push; the history forgets the previous call
\* and remembers this one when it returns its id
PushTo(c, call) ==
  /\ procs' = [procs EXCEPT ![c] = call]
  /\ lastPush' = IF call.outcome = "returned"
                 THEN [artifactPath |-> call.artifactPath, project |-> call.project,
                       tag |-> call.tag, id |-> call.returnedId]
                 ELSE NoPush

\* ------------------------------------------------------------------------
\* push
\* ------------------------------------------------------------------------
\* Steps 1 and 2: look for the build info file and map it to an artifact.
\* Both only read the developer's disk.
Analysis(call) ==
  LET analysis == Analyzed[call.artifactPath]
      analyzed == InDebug(call, analysis)
  IN IF ~analysis.success
     THEN Throw(analyzed, analysis.error)
     ELSE [analyzed EXCEPT
             !.pc = IF Truthy(call.tag) THEN "checkTag" ELSE "putId",
             !.buildInfoPath = analysis.value.buildInfoPath,
             !.artifactId = analysis.value.artifact.id,
             !.body = ArtifactBytes[call.artifactPath],
             !.additionalArtifactsPaths = analysis.value.additionalArtifactsPaths,
             !.uploadCalls = IF Truthy(call.tag) THEN 0 ELSE 1]

NewCall(kind, artifactPath, project, tag, force) ==
  [NoCall EXCEPT !.kind = kind, !.artifactPath = artifactPath, !.project = project,
                 !.tag = tag, !.force = force,
                 !.pre = [remote |-> remote, local |-> local]]

\* a variant of the start of push that sets up the local storage first, as
\* the start of pull does
PushStartWithSetup(c, artifactPath, project, tag, force) ==
  /\ NoCallRunning
  /\ nCalls < MaxCalls
  /\ nCalls' = nCalls + 1
  /\ PushTo(c, Analysis(NewCall("push", artifactPath, project, tag, force)))
  /\ local' = ensureProjectSetup(local, project)
  /\ UNCHANGED <<remote, nFaults, applied, provider>>

PushStart(c, artifactPath, project, tag, force) ==
  /\ NoCallRunning
  /\ nCalls < MaxCalls
  /\ nCalls' = nCalls + 1
  /\ PushTo(c, Analysis(NewCall("push", artifactPath, project, tag, force)))
  /\ UNCHANGED <<remote, local, nFaults, applied, provider>>

\* a faulty variant of the decision of step 3: the existence of the tag is ignored
TagCheckedIgnoringTag(call, tagExists) == [call EXCEPT !.pc = "putId", !.uploadCalls = 1]

\* the decision of step 3 once the store has answered
TagChecked(call, tagExists) ==
  IF tagExists /\ ~call.force
  THEN Throw(call, "CliError: the tag already exists")
  ELSE [call EXCEPT !.pc = "putId", !.uploadCalls = 1]

\* Step 3: check if the tag exists
PushCheckTag(c) ==
  LET call == procs[c]
  IN /\ call.kind = "push" /\ call.pc = "checkTag"
     /\ \E storeFails \in MayFail :
          LET hasTagResult == hasArtifact(remote, TagKey(call.project, call.tag), storeFails)
              counted == InDebug([call EXCEPT !.faults = IF storeFails THEN @ + 1 ELSE @],
                                 hasTagResult)
          IN /\ Count(storeFails)
             /\ IF ~hasTagResult.success
                THEN PushTo(c, Throw(counted, "CliError: error checking if the tag exists"))
                ELSE PushTo(c, TagChecked(counted, hasTagResult.value))
     /\ UNCHANGED <<remote, local, nCalls, applied, provider>>

\* toAsyncResult(uploadArtifact(...)): the upload is one promise
UploadFailed(call) ==
  Throw(InDebug([call EXCEPT !.faults = @ + 1], Err("StoreError")),
        "CliError: error pushing the artifact")

Returned(call) ==
  [Return(InDebug(call, Ok(NoValue))) EXCEPT !.returnedId = call.artifactId]

\* Step 4, uploadArtifact: PutObject of ids/<id>.json
PushPutId(c) ==
  LET call == procs[c]
  IN /\ call.kind = "push" /\ call.pc = "putId"
     /\ \E storeFails \in MayFail :
          /\ Count(storeFails)
          /\ IF storeFails
             THEN /\ PushTo(c, UploadFailed(call))
                  /\ UNCHANGED remote
             ELSE /\ remote' = PutObject(remote, IdKey(call.project, call.artifactId),
                                         call.body)
                  /\ PushTo(c, [call EXCEPT !.pc = IF Truthy(call.tag) THEN "copyTag"
                                                   ELSE "putBuildInfo"])
     /\ UNCHANGED <<local, nCalls, applied, provider>>

\* history: the rank of a copy among the copies of the calls in progress or
\* last finished
NextCopyOrder ==
  1 + (CHOOSE n \in {procs[d].copyOrder : d \in DOMAIN procs} :
         \A d \in DOMAIN procs : procs[d].copyOrder <= n)

\* uploadArtifact: CopyObject of ids/<id>.json to tags/<tag>.json
PushCopyTag(c) ==
  LET call == procs[c]
  IN /\ call.kind = "push" /\ call.pc = "copyTag"
     /\ \E storeFails \in MayFail :
          /\ Count(storeFails)
          /\ IF storeFails
             THEN /\ PushTo(c, UploadFailed(call))
                  /\ UNCHANGED remote
             ELSE /\ remote' = CopyObject(remote, TagKey(call.project, call.tag),
                                          IdKey(call.project, call.artifactId))
                  /\ PushTo(c, [call EXCEPT !.pc = "putBuildInfo",
                                             !.copyOrder = NextCopyOrder])
     /\ UNCHANGED <<local, nCalls, applied, provider>>

\* uploadArtifact: PutObject of the original build info file
PushPutBuildInfo(c) ==
  LET call == procs[c]
  IN /\ call.kind = "push" /\ call.pc = "putBuildInfo"
     /\ \E storeFails \in MayFail :
          /\ Count(storeFails)
          /\ IF storeFails
             THEN /\ PushTo(c, UploadFailed(call))
                  /\ UNCHANGED remote
             ELSE /\ remote' = PutObject(remote,
                                         OriginalContentKey(call.project, call.artifactId,
                                                            call.buildInfoPath),
                                         FileBytes[call.buildInfoPath])
                  /\ PushTo(c, IF call.additionalArtifactsPaths = <<>>
                               THEN Returned(call)
                               ELSE [call EXCEPT !.pc = "putAdditional"])
     /\ UNCHANGED <<local, nCalls, applied, provider>>

\* uploadArtifact: PutObject of the next additional artifact file
PushPutAdditional(c) ==
  LET call == procs[c]
      additionalArtifactPath == Head(call.additionalArtifactsPaths)
      rest == [call EXCEPT !.additionalArtifactsPaths = Tail(@)]
  IN /\ call.kind = "push" /\ call.pc = "putAdditional"
     /\ \E storeFails \in MayFail :
          /\ Count(storeFails)
          /\ IF storeFails
             THEN /\ PushTo(c, UploadFailed(call))
                  /\ UNCHANGED remote
             ELSE /\ remote' = PutObject(remote,
                                         OriginalContentKey(call.project, call.artifactId,
                                                            additionalArtifactPath),
                                         FileBytes[additionalArtifactPath])
                  /\ PushTo(c, IF rest.additionalArtifactsPaths = <<>>
                               THEN Returned(rest)
                               ELSE rest)
     /\ UNCHANGED <<local, nCalls, applied, provider>>

\* ------------------------------------------------------------------------
\* pull
\* ------------------------------------------------------------------------
\* the errors a unit rejects with
PullTagError(tag) == [name |-> "PullTagError", key |-> tag]

PullIdError(id) == [name |-> "PullIdError", key |-> id]

NoError == [name |-> "none", key |-> <<>>]

Unit(key) == [key |-> key, state |-> "downloading", stream |-> NoBytes, reason |-> NoError]

UnitsOf(keys) == [i \in 1..Len(keys) |-> Unit(keys[i])]

UnitKeys(units) == [i \in 1..Len(units) |-> units[i].key]

Settled(unit) == unit.state \in {"fulfilled", "rejected"}

RECURSIVE KeysInState(_, _)
KeysInState(units, state) ==
  IF units = <<>> THEN <<>>
  ELSE (IF Head(units).state = state THEN << Head(units).key >> ELSE <<>>)
       \o KeysInState(Tail(units), state)

\* a faulty variant of the filter: the keys present are the ones kept
RECURSIVE OnlyPresent(_, _)
OnlyPresent(keys, present) ==
  IF keys = <<>> THEN <<>>
  ELSE (IF Head(keys) \in present THEN << Head(keys) >> ELSE <<>>)
       \o OnlyPresent(Tail(keys), present)

\* keys.filter((key) => !present.has(key))
RECURSIVE Without(_, _)
Without(keys, present) ==
  IF keys = <<>> THEN <<>>
  ELSE (IF Head(keys) \in present THEN <<>> ELSE << Head(keys) >>)
       \o Without(Tail(keys), present)

\* Step 4 begins: with nothing to download the call returns at once,
\* otherwise one unit per tag and per ID is started
StartDownloads(call, filteredTagsToDownload, filteredIdsToDownload) ==
  IF filteredTagsToDownload = <<>> /\ filteredIdsToDownload = <<>>
  THEN Return([call EXCEPT !.tagUnits = <<>>, !.idUnits = <<>>])
  ELSE [call EXCEPT !.pc = "download",
                    !.tagUnits = UnitsOf(filteredTagsToDownload),
                    !.idUnits = UnitsOf(filteredIdsToDownload),
                    !.downloadCalls = Len(filteredTagsToDownload) + Len(filteredIdsToDownload)]

\* the resolution of the selector against the remote lists
TagsToDownload(tagOrId, remoteTags, remoteIds) ==
  IF Truthy(tagOrId)
  THEN (IF tagOrId \in Range(remoteTags) THEN << tagOrId >> ELSE <<>>)
  ELSE remoteTags

\* a faulty variant of the selection of IDs: the selector is not applied
IdsToDownloadAll(tagOrId, remoteTags, remoteIds) ==
  IF Truthy(tagOrId) /\ tagOrId \in Range(remoteTags) THEN <<>> ELSE remoteIds

\* a faulty variant of the selection of IDs: a selector that is a remote ID
\* selects the ID even when it is a remote tag as well
IdsToDownloadAlso(tagOrId, remoteTags, remoteIds) ==
  IF Truthy(tagOrId)
  THEN (IF tagOrId \in Range(remoteIds) THEN << tagOrId >> ELSE <<>>)
  ELSE remoteIds

IdsToDownload(tagOrId, remoteTags, remoteIds) ==
  IF Truthy(tagOrId)
  THEN (IF tagOrId \notin Range(remoteTags) /\ tagOrId \in Range(remoteIds)
        THEN << tagOrId >> ELSE <<>>)
  ELSE remoteIds

\* a faulty variant of the not-found test: an unknown selector selects nothing
NotFoundNever(tagOrId, remoteTags, remoteIds) == FALSE

NotFound(tagOrId, remoteTags, remoteIds) ==
  /\ Truthy(tagOrId)
  /\ tagOrId \notin Range(remoteTags)
  /\ tagOrId \notin Range(remoteIds)

\* the selection of step 2; with force the local check of step 3 is skipped
Selected(call, remoteTags, remoteIds) ==
  LET listed == [call EXCEPT !.remoteTags = remoteTags, !.remoteIds = remoteIds]
      tagsToDownload == TagsToDownload(call.tag, remoteTags, remoteIds)
      idsToDownload == IdsToDownload(call.tag, remoteTags, remoteIds)
  IN IF NotFound(call.tag, remoteTags, remoteIds)
     THEN Throw(listed, "CliError: the tag or ID does not exist in the storage")
     ELSE IF call.force
     THEN StartDownloads(DebugLines(listed, 6), tagsToDownload, idsToDownload)
     ELSE [DebugLines(listed, 6) EXCEPT !.pc = "checkLocal",
                         !.tagUnits = UnitsOf(tagsToDownload),
                         !.idUnits = UnitsOf(idsToDownload)]

\* the filter of step 3 once the local store has been listed
LocalChecked(call, localTags, localIds) ==
  IF ~localTags.success \/ ~localIds.success
  THEN Throw(InDebug([call EXCEPT !.tagUnits = <<>>, !.idUnits = <<>>], Err("FsError")),
             "CliError: error checking local storage")
  ELSE StartDownloads(InDebug(call, Ok(<<localTags.value, localIds.value>>)),
                      Without(UnitKeys(call.tagUnits), Range(localTags.value)),
                      Without(UnitKeys(call.idUnits), Range(localIds.value)))

\* history: the keys the previous call reported as failed, when it was a pull
\* of the same project that returned
FailedBefore(previous, project) ==
  IF previous.kind = "pull" /\ previous.outcome = "returned" /\ previous.project = project
  THEN [tags |-> previous.failedTags, ids |-> previous.failedIds]
  ELSE [tags |-> <<>>, ids |-> <<>>]

\* Step 1: set up the local storage
PullStart(c, project, tagOrId, force) ==
  /\ NoCallRunning
  /\ nCalls < MaxCalls
  /\ nCalls' = nCalls + 1
  /\ LET call == [NewCall("pull", NoValue, project, tagOrId, force) EXCEPT
                    !.lastFailed = FailedBefore(procs[c], project)]
     IN \E fsFails \in MayFail :
          /\ Count(fsFails)
          /\ IF fsFails
             THEN /\ procs' = [procs EXCEPT ![c] =
                                 Throw(InDebug([call EXCEPT !.faults = @ + 1], Err("FsError")),
                                       "CliError: error setting up local storage")]
                  /\ UNCHANGED local
             ELSE /\ procs' = [procs EXCEPT ![c] =
                                 [InDebug(call, Ok(NoValue)) EXCEPT !.pc = "list"]]
                  /\ local' = ensureProjectSetup(local, project)
  /\ UNCHANGED <<remote, lastPush, applied, provider>>

\* Step 2: fetch the remote lists and resolve the selector
PullList(c) ==
  LET call == procs[c]
  IN /\ call.kind = "pull" /\ call.pc = "list"
     /\ \E storeFails \in MayFail :
          /\ Count(storeFails)
          /\ procs' = [procs EXCEPT ![c] =
               IF storeFails
               THEN Throw(InDebug([call EXCEPT !.faults = @ + 1], Err("StoreError")),
                          "CliError: error interacting with the storage")
               ELSE Selected(InDebug(call, Ok(<<S3listTags(remote, call.project),
                                                S3listIds(remote, call.project)>>)),
                             S3listTags(remote, call.project),
                             S3listIds(remote, call.project))]
     /\ UNCHANGED <<remote, local, lastPush, nCalls, applied, provider>>

\* Step 3: check the local artifacts
PullCheckLocal(c) ==
  LET call == procs[c]
  IN /\ call.kind = "pull" /\ call.pc = "checkLocal"
     /\ \E fsFails \in MayFail :
          /\ Count(fsFails)
          /\ procs' = [procs EXCEPT ![c] =
               IF fsFails
               THEN Throw(InDebug([call EXCEPT !.faults = @ + 1, !.tagUnits = <<>>,
                                                  !.idUnits = <<>>], Err("FsError")),
                          "CliError: error checking local storage")
               ELSE LocalChecked(call, LocalListTags(local, call.project),
                                 LocalListIds(local, call.project))]
     /\ UNCHANGED <<remote, local, lastPush, nCalls, applied, provider>>

\* a faulty variant of the download: the error of the store is thrown as it is
DownloadedOrRethrown(unit, bucket, key, storeFails, error) ==
  IF key \notin DOMAIN bucket \/ storeFails
  THEN [unit EXCEPT !.state = "rejected", !.reason = [name |-> "Error", key |-> <<>>]]
  ELSE [unit EXCEPT !.state = "writing", !.stream = bucket[key]]

\* a unit's download: GetObject of the key; a missing key is an error; the
\* unit throws its own error when the download failed
Downloaded(unit, bucket, key, storeFails, error) ==
  IF key \notin DOMAIN bucket \/ storeFails
  THEN [unit EXCEPT !.state = "rejected", !.reason = error]
  ELSE [unit EXCEPT !.state = "writing", !.stream = bucket[key]]

\* a unit's write of the downloaded stream to its local file; the unit
\* throws its own error when the write failed
Written(unit, how, error) ==
  IF how = "written"
  THEN [unit EXCEPT !.state = "fulfilled", !.stream = NoBytes]
  ELSE [unit EXCEPT !.state = "rejected", !.stream = NoBytes, !.reason = error]

\* the write fails at once when the directory of the file does not exist
WriteOutcome(fs, path, how) == IF Dirname(path) \in fs.dirs THEN how ELSE "none"

WriteOutcomes == IF nFaults < MaxFaults THEN {"written", "partial", "none"} ELSE {"written"}

\* the promises of a unit, as toAsyncResult gets them
DownloadPromise(bucket, key, storeFails) ==
  IF key \notin DOMAIN bucket \/ storeFails THEN Err("StoreError") ELSE Ok(bucket[key])

WritePromise(how) == IF how = "written" THEN Ok(NoValue) ELSE Err("FsError")

PullDownloadTag(c, i) ==
  LET call == procs[c]
  IN /\ call.kind = "pull" /\ call.pc = "download"
     /\ i \in 1..Len(call.tagUnits)
     /\ call.tagUnits[i].state = "downloading"
     /\ \E storeFails \in MayFail :
          /\ Count(storeFails)
          /\ procs' = [procs EXCEPT ![c] =
               [InDebug(call, DownloadPromise(remote, TagKey(call.project,
                                                                 call.tagUnits[i].key),
                                              storeFails))
                  EXCEPT !.tagUnits[i] =
                               Downloaded(@, remote, TagKey(call.project, @.key), storeFails,
                                          PullTagError(@.key)),
                            !.faults = IF storeFails THEN @ + 1 ELSE @]]
     /\ UNCHANGED <<remote, local, lastPush, nCalls, applied, provider>>

PullWriteTag(c, i) ==
  LET call == procs[c]
      path == LocalTagPath(call.project, call.tagUnits[i].key)
  IN /\ call.kind = "pull" /\ call.pc = "download"
     /\ i \in 1..Len(call.tagUnits)
     /\ call.tagUnits[i].state = "writing"
     /\ \E how \in WriteOutcomes :
          /\ Count(how # "written")
          /\ local' = WriteFile(local, path, call.tagUnits[i].stream,
                                WriteOutcome(local, path, how))
          /\ procs' = [procs EXCEPT ![c] =
               [InDebug(call, WritePromise(WriteOutcome(local, path, how)))
                  EXCEPT !.tagUnits[i] = Written(@, WriteOutcome(local, path, how),
                                                    PullTagError(@.key)),
                            !.faults = IF how # "written" THEN @ + 1 ELSE @]]
     /\ UNCHANGED <<remote, lastPush, nCalls, applied, provider>>

PullDownloadId(c, i) ==
  LET call == procs[c]
  IN /\ call.kind = "pull" /\ call.pc = "download"
     /\ i \in 1..Len(call.idUnits)
     /\ call.idUnits[i].state = "downloading"
     /\ \E storeFails \in MayFail :
          /\ Count(storeFails)
          /\ procs' = [procs EXCEPT ![c] =
               [InDebug(call, DownloadPromise(remote, IdKey(call.project,
                                                                 call.idUnits[i].key),
                                              storeFails))
                  EXCEPT !.idUnits[i] =
                               Downloaded(@, remote, IdKey(call.project, @.key), storeFails,
                                          PullIdError(@.key)),
                            !.faults = IF storeFails THEN @ + 1 ELSE @]]
     /\ UNCHANGED <<remote, local, lastPush, nCalls, applied, provider>>

PullWriteId(c, i) ==
  LET call == procs[c]
      path == LocalIdPath(call.project, call.idUnits[i].key)
  IN /\ call.kind = "pull" /\ call.pc = "download"
     /\ i \in 1..Len(call.idUnits)
     /\ call.idUnits[i].state = "writing"
     /\ \E how \in WriteOutcomes :
          /\ Count(how # "written")
          /\ local' = WriteFile(local, path, call.idUnits[i].stream,
                                WriteOutcome(local, path, how))
          /\ procs' = [procs EXCEPT ![c] =
               [InDebug(call, WritePromise(WriteOutcome(local, path, how)))
                  EXCEPT !.idUnits[i] = Written(@, WriteOutcome(local, path, how),
                                                   PullIdError(@.key)),
                            !.faults = IF how # "written" THEN @ + 1 ELSE @]]
     /\ UNCHANGED <<remote, lastPush, nCalls, applied, provider>>

\* failedTags.push(settlement.reason.tag) / failedIds.push(settlement.reason.id)
RECURSIVE ReasonKeys(_)
ReasonKeys(units) ==
  IF units = <<>> THEN <<>>
  ELSE (IF Head(units).state = "rejected" THEN << Head(units).reason.key >> ELSE <<>>)
       \o ReasonKeys(Tail(units))

\* !(settlement.reason instanceof PullTagError), or PullIdError
Unexpected(units, errorName) ==
  \E i \in 1..Len(units) : units[i].state = "rejected" /\ units[i].reason.name # errorName

\* Promise.allSettled of the units, then the result
PullSettle(c) ==
  LET call == procs[c]
  IN /\ call.kind = "pull" /\ call.pc = "download"
     /\ \A i \in 1..Len(call.tagUnits) : Settled(call.tagUnits[i])
     /\ \A i \in 1..Len(call.idUnits) : Settled(call.idUnits[i])
     /\ procs' = [procs EXCEPT ![c] =
          IF Unexpected(call.tagUnits, "PullTagError")
          THEN Throw(call, "CliError: unexpected error while pulling tags")
          ELSE IF Unexpected(call.idUnits, "PullIdError")
          THEN Throw(call, "CliError: unexpected error while pulling IDs")
          ELSE [Return(call) EXCEPT
                  !.pulledTags = KeysInState(call.tagUnits, "fulfilled"),
                  !.failedTags = ReasonKeys(call.tagUnits),
                  !.pulledIds = KeysInState(call.idUnits, "fulfilled"),
                  !.failedIds = ReasonKeys(call.idUnits)]]
     /\ UNCHANGED <<remote, local, lastPush, nCalls, nFaults, applied, provider>>

\* ------------------------------------------------------------------------
\* Specification
\* ------------------------------------------------------------------------
\* the units of a pull are at most the tags and the IDs the calls of push made
UnitIndexes == 1..MaxCalls

Next ==
  \/ \E c \in Clients, in \in PushInputs, p \in Projects :
        PushStart(c, in.artifactPath, p, in.tag, in.force)
  \/ \E c \in Clients : PushCheckTag(c)
  \/ \E c \in Clients : PushPutId(c)
  \/ \E c \in Clients : PushCopyTag(c)
  \/ \E c \in Clients : PushPutBuildInfo(c)
  \/ \E c \in Clients : PushPutAdditional(c)
  \/ \E c \in Clients, p \in Projects, s \in Selectors, f \in BOOLEAN : PullStart(c, p, s, f)
  \/ \E c \in Clients : PullList(c)
  \/ \E c \in Clients : PullCheckLocal(c)
  \/ \E c \in Clients, i \in UnitIndexes : PullDownloadTag(c, i)
  \/ \E c \in Clients, i \in UnitIndexes : PullWriteTag(c, i)
  \/ \E c \in Clients, i \in UnitIndexes : PullDownloadId(c, i)
  \/ \E c \in Clients, i \in UnitIndexes : PullWriteId(c, i)
  \/ \E c \in Clients : PullSettle(c)

Spec == Init /\ [][Next]_vars

\* ------------------------------------------------------------------------
\* Concurrent pushes: two command lines push to the same bucket at the same
\* time; the steps of their calls interleave at every await of a store
\* operation
\* ------------------------------------------------------------------------
RaceClients == {"cli", "ci"}

\* the pushes of the race: three build outputs under the same tag, not forced
RaceInputs ==
  [artifactPath : {PathHardhatX, PathHardhatY, PathForgeDefault}, tag : { <<"v1">> },
   force : {FALSE}]

InitRace ==
  /\ remote = <<>>
  /\ local = EmptyLocal
  /\ procs = [c \in RaceClients |-> NoCall]
  /\ lastPush = NoPush
  /\ nCalls = 0
  /\ nFaults = 0
  /\ applied = NoApplication
  /\ provider = NoProvider

\* a client starts a push when its own previous call is over, whatever the
\* other client does
PushStartInParallel(c, artifactPath, project, tag, force) ==
  /\ procs[c].pc = "done"
  /\ nCalls < MaxCalls
  /\ nCalls' = nCalls + 1
  /\ PushTo(c, Analysis(NewCall("push", artifactPath, project, tag, force)))
  /\ UNCHANGED <<remote, local, nFaults, applied, provider>>

NextRace ==
  \/ \E c \in RaceClients, in \in RaceInputs, p \in Projects :
        PushStartInParallel(c, in.artifactPath, p, in.tag, in.force)
  \/ \E c \in RaceClients : PushCheckTag(c)
  \/ \E c \in RaceClients : PushPutId(c)
  \/ \E c \in RaceClients : PushCopyTag(c)
  \/ \E c \in RaceClients : PushPutBuildInfo(c)
  \/ \E c \in RaceClients : PushPutAdditional(c)

SpecRace == InitRace /\ [][NextRace]_vars

\* ------------------------------------------------------------------------
\* Pulls of a project whose tags hold ".json" inside their name: the bucket
\* starts as three pushes of the same build left it, one under each tag;
\* then the project is pulled and one of the tags is pushed again
\* ------------------------------------------------------------------------
TagAlias == <<".json", "x", ".json", "y">>

TagMasked == <<"x", ".json", "y", ".json">>

TagShadow == <<"x", "y", ".json", ".json">>

\* the bucket after a successful uploadArtifact of a build info file
Uploaded(bucket, project, id, tag, body, buildInfoPath, buildInfoBytes) ==
  PutObject(CopyObject(PutObject(bucket, IdKey(project, id), body),
                       TagKey(project, tag), IdKey(project, id)),
            OriginalContentKey(project, id, buildInfoPath), buildInfoBytes)

\* three pushes of the same build, one under each tag
UploadedUnderTags(project, id, body, buildInfoPath, buildInfoBytes) ==
  Uploaded(Uploaded(Uploaded(<<>>, project, id, TagAlias, body, buildInfoPath, buildInfoBytes),
                    project, id, TagMasked, body, buildInfoPath, buildInfoBytes),
           project, id, TagShadow, body, buildInfoPath, buildInfoBytes)

InitRefresh ==
  /\ remote = UploadedUnderTags(<<"demo">>, IdM1, ArtifactBytes[PathHardhatX], PathHardhatX,
                                FileBytes[PathHardhatX])
  /\ local = EmptyLocal
  /\ procs = [c \in Clients |-> NoCall]
  /\ lastPush = NoPush
  /\ nCalls = 0
  /\ nFaults = 0
  /\ applied = NoApplication
  /\ provider = NoProvider

RefreshPushes == [artifactPath : {PathHardhatY}, tag : {TagMasked}, force : BOOLEAN]

RefreshSelectors == {NoValue, TagMasked}

NextRefresh ==
  \/ \E c \in Clients, in \in RefreshPushes, p \in Projects :
        PushStart(c, in.artifactPath, p, in.tag, in.force)
  \/ \E c \in Clients : PushCheckTag(c)
  \/ \E c \in Clients : PushPutId(c)
  \/ \E c \in Clients : PushCopyTag(c)
  \/ \E c \in Clients : PushPutBuildInfo(c)
  \/ \E c \in Clients, p \in Projects, s \in RefreshSelectors, f \in BOOLEAN :
        PullStart(c, p, s, f)
  \/ \E c \in Clients : PullList(c)
  \/ \E c \in Clients : PullCheckLocal(c)
  \/ \E c \in Clients, i \in UnitIndexes : PullDownloadTag(c, i)
  \/ \E c \in Clients, i \in UnitIndexes : PullWriteTag(c, i)
  \/ \E c \in Clients, i \in UnitIndexes : PullDownloadId(c, i)
  \/ \E c \in Clients, i \in UnitIndexes : PullWriteId(c, i)
  \/ \E c \in Clients : PullSettle(c)

SpecRefresh == InitRefresh /\ [][NextRefresh]_vars

\* ------------------------------------------------------------------------
\* The functions of the build analysis, applied to every input of the model
\* ------------------------------------------------------------------------
\* the JSON objects with at most two of the given entries, in either order
ObjectsOf(entries) ==
  {<<>>} \cup {<< e >> : e \in entries}
  \cup {<< e, f >> : <<e, f>> \in {pair \in entries \X entries : pair[1].key # pair[2].key}}

\* compiler outputs over the source files A.sol and B.sol, the contracts A
\* and B, the metadata strings M1 and M2 and two bytecodes
DeriveInputs ==
  {SolcOutput(contracts) :
     contracts \in ObjectsOf([key : { <<"A.sol">>, <<"B.sol">> },
                              value : ObjectsOf([key : { <<"A">>, <<"B">> },
                                                 value : [metadata : { <<"M1">>, <<"M2">> },
                                                          evm : {"bytecode", "other"}]])])}

\* every path of the look-up directories, and a path that does not exist
LookInputs == DOMAIN LookFixtures \cup { <<"nowhere">> }

\* every build file of the disk, a directory and a path that does not exist
MapInputs == (FilePaths(Disk) \ DOMAIN LookFixtures) \cup { PathForgeDefault, <<"nowhere">> }

\* the local stores listPulledArtifacts is given: two projects, each one
\* absent or holding any of the tags v1 (of the one build or of the other)
\* and v2 and any of the two ID files
ListedProjects == { <<"demo">>, <<"lib">> }

ProjectContents ==
  {c \in [present : BOOLEAN,
           v1 : {NoValue, PathHardhatX, PathHardhatY},
           v2 : {NoValue, PathHardhatX},
           idM1 : {NoValue, PathHardhatX},
           idM2 : {NoValue, PathHardhatY}] :
     c.present \/ (c.v1 = NoValue /\ c.v2 = NoValue /\ c.idM1 = NoValue /\ c.idM2 = NoValue)}

Pulled(fs, path, artifactPath, bytes) ==
  IF artifactPath = NoValue THEN fs ELSE WriteFile(fs, path, bytes[artifactPath], "written")

WithProject(fs, project, c, bytes) ==
  IF ~c.present THEN fs
  ELSE Pulled(Pulled(Pulled(Pulled(ensureProjectSetup(fs, project),
                                   LocalTagPath(project, <<"v1">>), c.v1, bytes),
                            LocalTagPath(project, <<"v2">>), c.v2, bytes),
                     LocalIdPath(project, IdM1), c.idM1, bytes),
              LocalIdPath(project, IdM2), c.idM2, bytes)

ListInputs ==
  {WithProject(WithProject(EmptyLocal, <<"demo">>, c[<<"demo">>], ArtifactBytes),
               <<"lib">>, c[<<"lib">>], ArtifactBytes) :
     c \in [ListedProjects -> ProjectContents]}

\* the original file paths given to uploadArtifact: absolute, relative to the
\* working directory with or without "./", with doubled separators
OriginalPaths ==
  {path \o <<"f", ".json">> :
     path \in UNION {[1..n -> {"/", ".", "out"}] : n \in 0..3}}

\* the keys of two original files in uploads of the same id
OriginalContentKeysOf(paths) ==
  [i \in 1..Len(paths) |-> OriginalContentKey(<<"demo">>, IdM1, paths[i])]

\* the three decimal digits of a number below 1000
Decimal3(n) == <<ToString(n \div 100), ToString((n \div 10) % 10), ToString(n % 10)>>

\* a bucket after the pushes of two artifacts, the first of them with n
\* additional original files out/c000.json, out/c001.json, ...
StoredOriginals(first, second, n) ==
  [key \in {IdKey(<<"demo">>, first), IdKey(<<"demo">>, second)} \cup
            {OriginalContentKey(<<"demo">>, first,
                                <<"out", "/", "c">> \o Decimal3(m) \o <<".json">>) :
               m \in 0..(n - 1)} |-> 1]

\* the stored ids and the number of original files of the first of them
ListIdsInputs ==
  {<<IdM1, IdM2, n>> : n \in {0, 1, 2, MaxKeys - 1}} \cup
  {<<IdM2, IdM1, n>> : n \in {0, 1, 2}}

\* listPulledArtifacts on a local store: ensureSetup creates the root
List(fs) ==
  /\ applied.fn = "none"
  /\ applied' = [fn |-> "listPulledArtifacts", arg |-> fs,
                 value |-> listPulledArtifacts(ensureSetup(fs))]
  /\ local' = ensureSetup(fs)
  /\ UNCHANGED <<remote, procs, lastPush, nCalls, nFaults, provider>>

\* one application per behaviour
Apply(fn, arg, value) ==
  /\ applied.fn = "none"
  /\ applied' = [fn |-> fn, arg |-> arg, value |-> value]
  /\ UNCHANGED <<remote, local, procs, lastPush, nCalls, nFaults, provider>>

NextAnalysis ==
  \/ \E inputPath \in LookInputs :
        Apply("lookForBuildInfoJsonFile", inputPath, lookForBuildInfoJsonFile(Disk, inputPath))
  \/ \E buildInfoPath \in MapInputs :
        Apply("mapBuildInfoToSokoArtifact", buildInfoPath,
              mapBuildInfoToSokoArtifact(Disk, buildInfoPath))
  \/ \E fs \in ListInputs : List(fs)
  \/ \E path, other \in OriginalPaths :
        Apply("OriginalContentKey", <<path, other>>, OriginalContentKeysOf(<<path, other>>))
  \/ \E stored \in ListIdsInputs :
        Apply("listIds", stored,
              S3listIds(StoredOriginals(stored[1], stored[2], stored[3]), <<"demo">>))
  \/ \E output \in DeriveInputs :
        Apply("deriveSokoArtifactId", output, deriveSokoArtifactId(output))

SpecAnalysis == Init /\ [][NextAnalysis]_vars

\* ------------------------------------------------------------------------
\* The client of the S3 provider.  Every store operation begins with
\* getClient(); with a role configured the first client is built from the
\* credentials an AssumeRole request returns.  The operations are started as
\* pull starts them: listTags and listIds together, then, once both have
\* returned, the downloads of the units.
\* ------------------------------------------------------------------------
\* the number of tags and of IDs a pull of the model downloads
MaxUnits == 2

ListOperations == << <<"listTags", 0>>, <<"listIds", 0>> >>

\* the calls of the units, in the order the two map() loops start them
DownloadOperations ==
  [i \in 1..MaxUnits |-> <<"downloadArtifactByTag", i>>]
  \o [i \in 1..MaxUnits |-> <<"downloadArtifactById", i>>]

StoreOperations == Range(ListOperations) \cup Range(DownloadOperations)

NotStarted == [pc |-> "idle", client |-> 0]

\* getClient up to its first await: the cached client is returned, or a
\* client is built from the static credentials, or the AssumeRole request is
\* sent and the call waits for its response
getClient(p, operation) ==
  IF p.client # 0
  THEN [p EXCEPT !.operations[operation] = [pc |-> "sending", client |-> p.client]]
  ELSE IF ~p.role
  THEN [p EXCEPT !.clients = @ + 1, !.client = p.clients + 1,
                 !.operations[operation] = [pc |-> "sending", client |-> p.clients + 1]]
  ELSE [p EXCEPT !.assumeRoleRequests = @ + 1,
                 !.operations[operation] = [pc |-> "assumingRole", client |-> 0]]

\* calls started one after the other with no await in between
RECURSIVE StartedInTurn(_, _)
StartedInTurn(p, operations) ==
  IF operations = <<>> THEN p
  ELSE StartedInTurn(getClient(p, Head(operations)), Tail(operations))

\* getRoleCredentials after the response: a failed request or a response
\* without credentials throws, otherwise getClient builds a client from the
\* returned credentials and caches it
RoleCredentialsReceived(p, operation, fails) ==
  IF fails
  THEN [p EXCEPT !.operations[operation] = [pc |-> "failed", client |-> 0]]
  ELSE [p EXCEPT !.clients = @ + 1, !.client = p.clients + 1,
                 !.operations[operation] = [pc |-> "sending", client |-> p.clients + 1]]

InitRole ==
  /\ remote = <<>>
  /\ local = EmptyLocal
  /\ procs = [c \in Clients |-> NoCall]
  /\ lastPush = NoPush
  /\ nCalls = 0
  /\ nFaults = 0
  /\ applied = NoApplication
  /\ \E role \in BOOLEAN :
       provider = [NoProvider EXCEPT !.role = role,
                                     !.operations = [o \in StoreOperations |-> NotStarted]]

\* Promise.all([listTags(project), listIds(project)])
FetchRemoteLists ==
  /\ \A o \in Range(ListOperations) : provider.operations[o].pc = "idle"
  /\ provider' = StartedInTurn(provider, ListOperations)
  /\ UNCHANGED <<remote, local, procs, lastPush, nCalls, nFaults, applied>>

\* the response of the AssumeRole request of one call
AssumeRoleResponse(operation) ==
  /\ provider.operations[operation].pc = "assumingRole"
  /\ \E fails \in BOOLEAN :
       provider' = RoleCredentialsReceived(provider, operation, fails)
  /\ UNCHANGED <<remote, local, procs, lastPush, nCalls, nFaults, applied>>

\* client.send(command) of one call and its response or its error
Send(operation) ==
  /\ provider.operations[operation].pc = "sending"
  /\ \E fails \in BOOLEAN :
       provider' = [provider EXCEPT !.operations[operation].pc =
                                       IF fails THEN "failed" ELSE "done"]
  /\ UNCHANGED <<remote, local, procs, lastPush, nCalls, nFaults, applied>>

\* the units of pull, started once both lists have been fetched
StartUnits ==
  /\ \A o \in Range(ListOperations) : provider.operations[o].pc = "done"
  /\ \A o \in Range(DownloadOperations) : provider.operations[o].pc = "idle"
  /\ provider' = StartedInTurn(provider, DownloadOperations)
  /\ UNCHANGED <<remote, local, procs, lastPush, nCalls, nFaults, applied>>

NextRole ==
  \/ FetchRemoteLists
  \/ \E o \in StoreOperations : AssumeRoleResponse(o)
  \/ \E o \in StoreOperations : Send(o)
  \/ StartUnits

SpecRole == InitRole /\ [][NextRole]_vars

\* ------------------------------------------------------------------------
\* Several projects in one bucket and one local store.  A project name is
\* any non-empty string: the names of the model are two plain ones and one
\* that holds a "/".
\* ------------------------------------------------------------------------
ProjectNames == { <<"demo">>, <<"lib">>, <<"demo", "/", "tags">> }

ProjectPushes == [artifactPath : {PathHardhatX}, tag : {NoValue, <<"v1">>}, force : {FALSE}]

NextProjects ==
  \/ \E c \in Clients, in \in ProjectPushes, p \in ProjectNames :
        PushStart(c, in.artifactPath, p, in.tag, in.force)
  \/ \E c \in Clients : PushCheckTag(c)
  \/ \E c \in Clients : PushPutId(c)
  \/ \E c \in Clients : PushCopyTag(c)
  \/ \E c \in Clients : PushPutBuildInfo(c)
  \/ \E c \in Clients, p \in ProjectNames, f \in BOOLEAN : PullStart(c, p, NoValue, f)
  \/ \E c \in Clients : PullList(c)
  \/ \E c \in Clients : PullCheckLocal(c)
  \/ \E c \in Clients, i \in UnitIndexes : PullDownloadTag(c, i)
  \/ \E c \in Clients, i \in UnitIndexes : PullWriteTag(c, i)
  \/ \E c \in Clients, i \in UnitIndexes : PullDownloadId(c, i)
  \/ \E c \in Clients, i \in UnitIndexes : PullWriteId(c, i)
  \/ \E c \in Clients : PullSettle(c)

SpecProjects == Init /\ [][NextProjects]_vars

\* ------------------------------------------------------------------------
\* verifyContract of the deployment script: verifyContractOnce is tried in
\* a loop.  The run is kept in the variable applied: arg is the sequence of
\* the outcomes of the attempts made so far, value is the position of the
\* function, the number of waits and what was written on the console.
\* ------------------------------------------------------------------------
Attempts == 5

\* the outcome of one attempt: no error, or the message of the error thrown
Verified == <<"verified">>

ErrorMessages ==
  { <<"0xabc", " does not have bytecode">>,   \* the explorer has not indexed the contract
    <<"Missing API key for verification">>,
    <<>> }                                   \* new Error("") or an error without message

\* message.includes(part)
includes(message, part) == \E k \in 1..Len(message) : message[k] = part

VerifyStarted == [pc |-> "loop", i |-> 0, waits |-> 0, console |-> <<>>]

\* what the catch block makes of the error of attempt i
Caught(run, message) ==
  IF message # <<>> /\ includes(message, " does not have bytecode")
  THEN [run EXCEPT !.waits = @ + 1, !.i = @ + 1]
  ELSE IF message # <<>>
  THEN [run EXCEPT !.console = Append(@, message), !.pc = "returned"]
  ELSE [run EXCEPT !.i = @ + 1]

InitVerify ==
  /\ remote = <<>>
  /\ local = EmptyLocal
  /\ procs = [c \in Clients |-> NoCall]
  /\ lastPush = NoPush
  /\ nCalls = 0
  /\ nFaults = 0
  /\ applied = [fn |-> "verifyContract", arg |-> <<>>, value |-> VerifyStarted]
  /\ provider = NoProvider

\* one turn of the loop: verifyContractOnce and the catch block
verifyContractOnce ==
  /\ applied.value.pc = "loop"
  /\ applied.value.i < Attempts
  /\ \E outcome \in {Verified} \cup ErrorMessages :
       applied' = [applied EXCEPT
                     !.arg = Append(@, outcome),
                     !.value = IF outcome = Verified
                               THEN [@ EXCEPT !.pc = "returned"]
                               ELSE Caught(@, outcome)]
  /\ UNCHANGED <<remote, local, procs, lastPush, nCalls, nFaults, provider>>

\* the loop ends after the last turn and the function returns
VerifyLoopEnd ==
  /\ applied.value.pc = "loop"
  /\ applied.value.i = Attempts
  /\ applied' = [applied EXCEPT !.value.pc = "returned"]
  /\ UNCHANGED <<remote, local, procs, lastPush, nCalls, nFaults, provider>>

NextVerify ==
  \/ verifyContractOnce
  \/ VerifyLoopEnd

SpecVerify == InitVerify /\ [][NextVerify]_vars

TypeOK ==
  /\ nCalls \in 0..MaxCalls
  /\ nFaults \in 0..MaxFaults
  /\ \A c \in Clients : procs[c].kind \in {"none", "push", "pull"}

\* ------------------------------------------------------------------------
\* Properties
\* ------------------------------------------------------------------------
DonePush(call) == call.kind = "push" /\ call.pc = "done"

DonePull(call) == call.kind = "pull" /\ call.pc = "done"

\* the artifact stored in an object of the bucket
ArtifactAt(bucket, key) == JSONParse(TextOf(bucket[key]))

\* the keys of the direct ID objects and of the tag objects of a project
IdObjectKeys(bucket, project) ==
  {k \in DOMAIN bucket :
     /\ StartsWith(k, IdsPrefix(project))
     /\ EndsWith(k, <<".json">>)
     /\ ~Includes(SubSeq(k, Len(IdsPrefix(project)) + 1, Len(k)), "/")}

TagObjectKeys(bucket, project) == {k \in DOMAIN bucket : StartsWith(k, TagsPrefix(project))}

TagConflict(call) ==
  /\ DonePush(call)
  /\ call.tag \in Tags /\ ~call.force
  /\ hasArtifactByTag(call.pre.remote, call.project, call.tag)

\* C1: a push without force whose tag already exists in the remote store
\* throws (the CliError "the tag already exists" unless the existence check
\* itself failed), issues no uploadArtifact call, and leaves every remote
\* object as it was before the call.
C1_TagConflictRejected ==
  \A c \in Clients :
    TagConflict(procs[c]) =>
      /\ procs[c].outcome = "threw"
      /\ procs[c].faults = 0 => procs[c].error = "CliError: the tag already exists"
      /\ procs[c].uploadCalls = 0
      /\ remote = procs[c].pre.remote

C1_Witness ==
  \E c \in Clients :
    /\ TagConflict(procs[c])
    /\ procs[c].error = "CliError: the tag already exists"
    /\ procs[c].artifactId #
         ArtifactAt(remote, TagKey(procs[c].project, procs[c].tag)).id

\* the ID the tag of a call pointed to before the call
OldId(call) == ArtifactAt(call.pre.remote, TagKey(call.project, call.tag)).id

\* a forced push of Y onto a tag that an earlier push bound to X, idX # idY
ForcedRetag(call) ==
  /\ call.kind = "push"
  /\ call.tag \in Tags /\ call.force
  /\ call.artifactId # NoValue
  /\ hasArtifactByTag(call.pre.remote, call.project, call.tag)
  /\ OldId(call) # call.artifactId
  /\ hasArtifactById(call.pre.remote, call.project, OldId(call))
  /\ call.pre.remote[IdKey(call.project, OldId(call))] =
       call.pre.remote[TagKey(call.project, call.tag)]

\* C2: after push(X, tag t) and then push(Y, tag t, force), with different
\* IDs, the tag object equals ids/<idY>.json and ids/<idX>.json still holds
\* X's content; at every moment of the forced push the tag object is one
\* artifact, X's or Y's.
C2_ForcedRetagRepoints ==
  \A c \in Clients :
    ForcedRetag(procs[c]) =>
      LET call == procs[c]
          tagKey == TagKey(call.project, call.tag)
      IN /\ remote[tagKey] \in {call.pre.remote[tagKey], call.body}
         /\ remote[IdKey(call.project, OldId(call))] = call.pre.remote[tagKey]
         /\ call.outcome = "returned" =>
              /\ call.returnedId = call.artifactId
              /\ remote[tagKey] = remote[IdKey(call.project, call.artifactId)]
              /\ ArtifactAt(remote, tagKey).id = call.artifactId

C2_Witness ==
  \E c \in Clients :
    /\ ForcedRetag(procs[c])
    /\ procs[c].outcome = "returned"
    /\ ArtifactAt(remote, TagKey(procs[c].project, procs[c].tag)).id = procs[c].artifactId
    /\ ArtifactAt(remote, IdKey(procs[c].project, OldId(procs[c]))).id = OldId(procs[c])

\* the second of two pushes of the same build output under two tags: before
\* it the project holds one tag, another one, bound to the same content
SecondTagOfSameBuild(call) ==
  /\ DonePush(call) /\ call.outcome = "returned"
  /\ call.tag \in Tags
  /\ \E t \in Tags \ {call.tag} :
       /\ TagObjectKeys(call.pre.remote, call.project) = {TagKey(call.project, t)}
       /\ call.pre.remote[TagKey(call.project, t)] = call.body
  /\ Cardinality(IdObjectKeys(call.pre.remote, call.project)) = 1

\* C3: pushing the same build output twice under two different tags returns
\* the same id both times; afterwards listIds has exactly one ID and
\* listTags exactly the two tags.
C3_SameBuildTwoTags ==
  \A c \in Clients :
    SecondTagOfSameBuild(procs[c]) =>
      LET call == procs[c]
          first == CHOOSE t \in Tags :
                     TagObjectKeys(call.pre.remote, call.project) = {TagKey(call.project, t)}
      IN /\ call.returnedId = ArtifactAt(call.pre.remote, TagKey(call.project, first)).id
         /\ S3listIds(remote, call.project) = << call.returnedId >>
         /\ Len(S3listTags(remote, call.project)) = 2
         /\ Range(S3listTags(remote, call.project)) = {first, call.tag}

\* C4: from an empty local store, a first pull returns pulledTags with
\* every selected remote tag (the later pulls of the claim start from the
\* state this one leaves).
C4_FirstPullPullsSelectedTags ==
  \A c \in Clients :
    LET call == procs[c]
    IN (DonePull(call) /\ DOMAIN call.pre.local.files = {} /\ call.faults = 0) =>
         \A t \in Tags :
           (hasArtifactByTag(call.pre.remote, call.project, t) /\ call.tag \in {NoValue, t})
             => (call.outcome = "returned" /\ t \in Range(call.pulledTags))

\* a pull whose selector is in neither remote list
UnknownSelector(call) ==
  /\ call.kind = "pull"
  /\ call.tag # NoValue
  /\ call.tag \notin Range(S3listTags(call.pre.remote, call.project))
  /\ call.tag \notin Range(S3listIds(call.pre.remote, call.project))

\* C5: pull with a selector that is neither a remote tag nor a remote ID
\* throws the not-found CliError (unless a store failed first), starts no
\* download and writes no file to the local store, forced or not.
C5_UnknownSelectorNotFound ==
  \A c \in Clients :
    UnknownSelector(procs[c]) =>
      /\ procs[c].downloadCalls = 0
      /\ local.files = procs[c].pre.local.files
      /\ procs[c].pc = "done" =>
           /\ procs[c].outcome = "threw"
           /\ procs[c].faults = 0 =>
                procs[c].error = "CliError: the tag or ID does not exist in the storage"

C5_Witness ==
  \E c \in Clients :
    /\ UnknownSelector(procs[c])
    /\ procs[c].force
    /\ procs[c].error = "CliError: the tag or ID does not exist in the storage"
    /\ TagObjectKeys(remote, procs[c].project) # {}
    /\ IdObjectKeys(remote, procs[c].project) # {}

\* a pull by the id of the last push, which was untagged, into a local store
\* that lacks this id, with no failure of a store during the pull
PullOfUntaggedPush(call) ==
  /\ DonePull(call)
  /\ lastPush.id # NoValue /\ lastPush.tag = NoValue
  /\ call.project = lastPush.project
  /\ call.tag = lastPush.id
  /\ ~hasId(call.pre.local, call.project, lastPush.id)
  /\ call.faults = 0

\* the round trip: the id is pulled and the local artifact is the pushed one
RoundTrip(call) ==
  /\ call.outcome = "returned"
  /\ call.pulledIds = << lastPush.id >>
  /\ call.failedIds = <<>>
  /\ hasId(local, call.project, lastPush.id)
  /\ LET retrieved == retrieveArtifactById(local, call.project, lastPush.id)
         pushed == Analyzed[lastPush.artifactPath].value
     IN /\ retrieved.success
        /\ retrieved.value = pushed.artifact
        /\ retrieved.value.id = lastPush.id
        /\ retrieved.value.origin.id = JSONParse(Disk[pushed.buildInfoPath].content).id

UnitsWithPlaces(call) ==
  {[unit |-> call.tagUnits[i], list |-> "tags",
    key |-> TagKey(call.project, call.tagUnits[i].key),
    path |-> LocalTagPath(call.project, call.tagUnits[i].key)] : i \in 1..Len(call.tagUnits)}
  \cup
  {[unit |-> call.idUnits[i], list |-> "ids",
    key |-> IdKey(call.project, call.idUnits[i].key),
    path |-> LocalIdPath(call.project, call.idUnits[i].key)] : i \in 1..Len(call.idUnits)}

Downloading(call) == call.kind = "pull" /\ call.downloadCalls > 0

UntaggedPushReturned(call) ==
  /\ DonePush(call) /\ call.outcome = "returned"
  /\ call.tag = NoValue

\* C8: a successful push without tag returns a 12-character id, makes
\* hasArtifactById(project, id) true and leaves the tag objects of the
\* project as they were: none is created, none is changed.
C8_UntaggedPushCreatesNoTag ==
  \A c \in Clients :
    UntaggedPushReturned(procs[c]) =>
      LET call == procs[c]
      IN /\ Len(call.returnedId) = 12
         /\ hasArtifactById(remote, call.project, call.returnedId)
         /\ TagObjectKeys(remote, call.project) = TagObjectKeys(call.pre.remote, call.project)
         /\ \A k \in TagObjectKeys(remote, call.project) : remote[k] = call.pre.remote[k]
         /\ \A t \in Tags :
              hasArtifactByTag(remote, call.project, t)
                <=> hasArtifactByTag(call.pre.remote, call.project, t)

C8_Witness ==
  \E c \in Clients :
    /\ UntaggedPushReturned(procs[c])
    /\ ~hasArtifactById(procs[c].pre.remote, procs[c].project, procs[c].returnedId)
    /\ TagObjectKeys(remote, procs[c].project) # {}

\* C9: push leaves the local store unchanged at every step and in every
\* outcome: directories and files are what they were when the call began.
C9_PushLeavesLocalStore ==
  \A c \in Clients : procs[c].kind = "push" => local = procs[c].pre.local

C9_Witness ==
  \E c \in Clients :
    /\ DonePush(procs[c])
    /\ procs[c].error = "CliError: error pushing the artifact"
    /\ remote # procs[c].pre.remote
    /\ DOMAIN local.files # {}

\* C10: in every reachable state each tag object of a project is
\* byte-identical to the current content of some ID object of the project.
C10_TagIsCopyOfSomeId ==
  \A p \in Projects :
    \A k \in TagObjectKeys(remote, p) :
      \E i \in IdObjectKeys(remote, p) : remote[i] = remote[k]

\* C11: once ids/<id>.json exists in the remote store of a project, no step
\* of any later push changes or removes its content.
C11_IdObjectNeverChanges ==
  [][\A p \in Projects :
       \A k \in IdObjectKeys(remote, p) : k \in DOMAIN remote' /\ remote'[k] = remote[k]]_vars

\* two finished pushes of the two clients, not forced, of artifacts with
\* different IDs under the same tag of the same project, that both passed
\* the existence check and copied their artifact to the tag
RacedPushes(first, second) ==
  /\ DonePush(first) /\ DonePush(second)
  /\ first.project = second.project
  /\ Truthy(first.tag) /\ first.tag = second.tag
  /\ ~first.force /\ ~second.force
  /\ first.artifactId # second.artifactId
  /\ first.outcome = "returned" /\ second.outcome = "returned"
  /\ ~hasArtifactByTag(first.pre.remote, first.project, first.tag)
  /\ ~hasArtifactByTag(second.pre.remote, second.project, second.tag)
  /\ 0 < first.copyOrder /\ first.copyOrder < second.copyOrder

\* C12: the tag check and the upload of push are not atomic: when two
\* non-forced pushes of different artifacts to the same new tag both pass
\* the existence check, both return their id with no error, and the tag
\* points to the artifact (the ID) whose copy was written last.
C12_RaceLastCopyWins ==
  \A c, d \in RaceClients :
    RacedPushes(procs[c], procs[d]) =>
      /\ procs[c].returnedId = procs[c].artifactId /\ procs[c].error = ""
      /\ procs[d].returnedId = procs[d].artifactId /\ procs[d].error = ""
      /\ ArtifactAt(remote, TagKey(procs[d].project, procs[d].tag)).id = procs[d].artifactId

C12_Witness ==
  \E c, d \in RaceClients :
    /\ RacedPushes(procs[c], procs[d])
    /\ remote[TagKey(procs[d].project, procs[d].tag)] = procs[d].body
    /\ remote[TagKey(procs[d].project, procs[d].tag)] # procs[c].body
    /\ remote[IdKey(procs[c].project, procs[c].artifactId)] = procs[c].body

\* the metadata strings of a compiler output from the contract at place j of
\* the source file at place i onwards: source files by key order of
\* output.contracts, contracts by key order inside their source file
RECURSIVE FedFrom(_, _, _)
FedFrom(contracts, i, j) ==
  IF i > Len(contracts) THEN <<>>
  ELSE IF j > Len(contracts[i].value) THEN FedFrom(contracts, i + 1, 1)
  ELSE contracts[i].value[j].value.metadata \o FedFrom(contracts, i, j + 1)

\* the same compiler output with another bytecode in every contract
WithCode(output, code) ==
  [contracts |->
     [i \in 1..Len(output.contracts) |->
        [key |-> output.contracts[i].key,
         value |-> [j \in 1..Len(output.contracts[i].value) |->
                      [key |-> output.contracts[i].value[j].key,
                       value |-> [output.contracts[i].value[j].value EXCEPT !.evm = code]]]]]]

\* C14: deriveSokoArtifactId(output) is the first 12 hex characters of the
\* SHA-256 digest of the contracts' metadata strings fed in enumeration
\* order; it is 12 lowercase hex characters long and does not depend on the
\* other fields of the contracts.
C14_IdIsDigestOfMetadata ==
  applied.fn = "deriveSokoArtifactId" =>
    /\ Len(applied.value) = 12
    /\ \A i \in 1..Len(applied.value) : applied.value[i] \in Range(HexDigits)
    /\ applied.value = SubSeq(Sha256Hex(FedFrom(applied.arg.contracts, 1, 1)), 1, 12)
    /\ \A code \in {"bytecode", "other"} :
         deriveSokoArtifactId(WithCode(applied.arg, code)) = applied.value

C14_Witness ==
  /\ applied.fn = "deriveSokoArtifactId"
  /\ Len(applied.arg.contracts) = 2
  /\ Keys(applied.arg.contracts) = << <<"B.sol">>, <<"A.sol">> >>
  /\ Len(applied.arg.contracts[1].value) = 2
  /\ FedFrom(applied.arg.contracts, 1, 1) = <<"M2", "M1", "M1">>
  /\ applied.arg.contracts[2].value[1].value.evm = "other"

\* build info files of the three formats that hold the same two contracts
\* A.sol:A and B.sol:B with the same metadata strings, each enumerated in
\* the one order and in the other
SameContractsBuilds ==
  { <<"hhab", ".json">>, <<"hhba", ".json">>, <<"fbiab", ".json">>, <<"fbiba", ".json">>,
    Join(Join(<<"outab">>, <<"build-info">>), <<"f", ".json">>),
    Join(Join(<<"outba">>, <<"build-info">>), <<"f", ".json">>) }

\* C13: build outputs of the supported formats that hold the same set of
\* contracts with identical metadata strings are mapped to artifacts with
\* the same id, whatever the order in which each enumerates its contracts.
C13_SameContractsSameId ==
  (/\ applied.fn = "mapBuildInfoToSokoArtifact"
   /\ applied.arg \in SameContractsBuilds
   /\ applied.value.success) =>
    \A other \in SameContractsBuilds :
      LET mapped == mapBuildInfoToSokoArtifact(Disk, other)
      IN mapped.success => mapped.value.artifact.id = applied.value.value.artifact.id

\* the names of a listing of the local store, none when the listing fails
NamesOf(listing) == IF listing.success THEN Range(listing.value) ELSE {}

\* the id of the artifact a local tag points to
IdOfLocalTag(fs, project, tag) == retrieveArtifactByTag(fs, project, tag).value.id

\* C15: listPulledArtifacts returns, for every local project, one row
\* (project, tag, id) per local tag where id is the id of the artifact the
\* tag points to, and one row (project, null, i) for a local ID i exactly
\* when no local tag of the project points to the artifact with id i.
C15_ListedRows ==
  (applied.fn = "listPulledArtifacts" /\ applied.value.success) =>
    \A p \in NamesOf(listProjects(ensureSetup(applied.arg))) :
      /\ \A t \in NamesOf(LocalListTags(applied.arg, p)) :
           [project |-> p, id |-> IdOfLocalTag(applied.arg, p, t), tag |-> [string |-> t]]
             \in Range(applied.value.value)
      /\ \A i \in NamesOf(LocalListIds(applied.arg, p)) :
           ([project |-> p, id |-> i, tag |-> JsonNull] \in Range(applied.value.value))
             <=> ~\E t \in NamesOf(LocalListTags(applied.arg, p)) :
                     IdOfLocalTag(applied.arg, p, t) = i

\* C16: pull with force=false never writes a local tag or ID file that
\* already exists: every file the local store held when the call began is
\* left unchanged, and a tag or an ID that was present locally is in none of
\* the pulled and failed lists, even when the remote tag has since been
\* re-pointed to another artifact by a forced push.
C16_UnforcedPullKeepsLocalFiles ==
  \A c \in Clients :
    (procs[c].kind = "pull" /\ ~procs[c].force) =>
      /\ \A path \in DOMAIN procs[c].pre.local.files :
           /\ path \in DOMAIN local.files
           /\ local.files[path] = procs[c].pre.local.files[path]
      /\ \A t \in Tags \cup {TagAlias, TagMasked, TagShadow} :
           hasTag(procs[c].pre.local, procs[c].project, t) =>
             t \notin (Range(procs[c].pulledTags) \cup Range(procs[c].failedTags))
      /\ \A i \in {IdM1, IdM2} :
           hasId(procs[c].pre.local, procs[c].project, i) =>
             i \notin (Range(procs[c].pulledIds) \cup Range(procs[c].failedIds))

\* C17: after a successful push under a tag t the remote listTags of the
\* project reports the tag under the same name t and hasArtifactByTag is
\* true; a pull of t without failure into a local store that lacks it
\* returns t in pulledTags with empty failedTags, after which the local
\* hasTag is true and the local listTags reports t.
C17_TagListedUnderItsName ==
  \A c \in Clients :
    /\ (DonePush(procs[c]) /\ procs[c].outcome = "returned" /\ Truthy(procs[c].tag)) =>
         /\ hasArtifactByTag(remote, procs[c].project, procs[c].tag)
         /\ procs[c].tag \in Range(S3listTags(remote, procs[c].project))
    /\ (/\ DonePull(procs[c]) /\ procs[c].faults = 0 /\ Truthy(procs[c].tag)
        /\ hasArtifactByTag(procs[c].pre.remote, procs[c].project, procs[c].tag)
        /\ ~hasTag(procs[c].pre.local, procs[c].project, procs[c].tag)) =>
         /\ procs[c].pulledTags = << procs[c].tag >>
         /\ procs[c].failedTags = <<>>
         /\ hasTag(local, procs[c].project, procs[c].tag)
         /\ procs[c].tag \in NamesOf(LocalListTags(local, procs[c].project))

\* the source paths the manifest of a Forge default output declares
DeclaredPaths(buildInfoPath) ==
  Range(ObjectValues(JSONParse(Disk[buildInfoPath].content).source_id_to_path))

\* the source paths named as compilation target by the per-contract files
\* next to the build-info directory of the manifest
RecoveredPaths(buildInfoPath) ==
  LET root == Dirname(Dirname(buildInfoPath)) \o <<"/">>
      files == {p \in FilePaths(Disk) :
                  /\ StartsWith(p, root)
                  /\ ~StartsWith(p, Dirname(buildInfoPath))
                  /\ EndsWith(p, <<".json">>)}
  IN {JSONParse(Disk[p].content).metadata.settings.compilationTarget[1].key : p \in files}

\* a Forge default output whose manifest and contract files do not agree
Mismatched(buildInfoPath) ==
  /\ ForgeCompilerDefaultOutputSchema(JSONParse(Disk[buildInfoPath].content))
  /\ ~ForgeCompilerOutputWithBuildInfoOptionSchema(JSONParse(Disk[buildInfoPath].content))
  /\ ~HardhatCompilerOutputSchema(JSONParse(Disk[buildInfoPath].content))
  /\ \/ Cardinality(DeclaredPaths(buildInfoPath)) # Cardinality(RecoveredPaths(buildInfoPath))
     \/ DeclaredPaths(buildInfoPath) = {}

\* C18: when the per-contract files of a Forge default output yield another
\* number of distinct source paths than its manifest declares, or when the
\* manifest declares none, mapBuildInfoToSokoArtifact fails with a CliError
\* and returns no artifact, and push throws it without any upload: the
\* bucket is left as it was.
C18_MismatchFailsReconstruction ==
  \A c \in Clients :
    (/\ DonePush(procs[c])
     /\ lookForBuildInfoJsonFile(Disk, procs[c].artifactPath).success
     /\ Mismatched(lookForBuildInfoJsonFile(Disk, procs[c].artifactPath).value)) =>
      /\ mapBuildInfoToSokoArtifact(Disk, lookForBuildInfoJsonFile(Disk, procs[c].artifactPath).value)
           = Err("CliError: Foundry default format could not be validated")
      /\ procs[c].outcome = "threw"
      /\ procs[c].error = "CliError: Foundry default format could not be validated"
      /\ procs[c].returnedId = NoValue
      /\ procs[c].uploadCalls = 0
      /\ remote = procs[c].pre.remote

C18_Witness ==
  \E c \in Clients :
    /\ DonePush(procs[c])
    /\ procs[c].artifactPath = <<"outshort">>
    /\ Mismatched(lookForBuildInfoJsonFile(Disk, procs[c].artifactPath).value)
    /\ Cardinality(RecoveredPaths(lookForBuildInfoJsonFile(Disk, procs[c].artifactPath).value)) = 1
    /\ Cardinality(DeclaredPaths(lookForBuildInfoJsonFile(Disk, procs[c].artifactPath).value)) = 2
    /\ procs[c].outcome = "threw"
    /\ remote # <<>>

\* the errors of mapBuildInfoToSokoArtifact that are a CliError
MappingCliErrors ==
  {"CliError: build info could not be read",
   "CliError: build info could not be parsed as JSON",
   "CliError: Foundry default format could not be validated",
   "CliError: seems to be in a Foundry format",
   "CliError: seems to be in a Hardhat format",
   "CliError: no supported format matches"}

\* the artifact of a build info file that holds the whole compiler output
CompilerOutputArtifact(json) ==
  [id |-> deriveSokoArtifactId(json.output),
   origin |-> [id |-> json.id, _format |-> json._format],
   solcLongVersion |-> json.solcLongVersion,
   input |-> json.input,
   output |-> json.output]

\* C19: mapBuildInfoToSokoArtifact tries the Hardhat v2 schema, then the
\* Forge build-info schema, then the Forge default schema, and the first
\* schema that validates decides the result (a file accepted by one of the
\* first two is never reconstructed from scattered files); when no schema
\* validates, the call throws a CliError and returns no artifact.
C19_FirstSchemaDecides ==
  (/\ applied.fn = "mapBuildInfoToSokoArtifact"
   /\ applied.arg \in FilePaths(Disk)
   /\ IsJsonText(Disk[applied.arg].content)) =>
    IF \/ HardhatCompilerOutputSchema(JSONParse(Disk[applied.arg].content))
       \/ ForgeCompilerOutputWithBuildInfoOptionSchema(JSONParse(Disk[applied.arg].content))
    THEN /\ applied.value.success
         /\ applied.value.value.artifact =
              CompilerOutputArtifact(JSONParse(Disk[applied.arg].content))
         /\ applied.value.value.additionalArtifactsPaths = <<>>
    ELSE IF ForgeCompilerDefaultOutputSchema(JSONParse(Disk[applied.arg].content))
    THEN IF applied.value.success
         THEN applied.value.value.artifact.origin._format = FORGE_COMPILER_DEFAULT_OUTPUT_FORMAT
         ELSE applied.value.error \in MappingCliErrors
    ELSE /\ ~applied.value.success
         /\ applied.value.error \in MappingCliErrors

\* the errors of lookForBuildInfoJsonFile, all of them a CliError
LookCliErrors ==
  {"CliError: path does not exist", "CliError: not a .json file",
   "CliError: multiple JSON files", "CliError: no JSON file"}

\* the directory whose JSON files are the candidates
CandidateFolder(inputPath) ==
  IF /\ Join(inputPath, <<"build-info">>) \in DOMAIN Disk
     /\ Disk[Join(inputPath, <<"build-info">>)].type = "dir"
  THEN Join(inputPath, <<"build-info">>)
  ELSE inputPath

Candidates(inputPath) ==
  {p \in FilePaths(Disk) :
     Dirname(p) = CandidateFolder(inputPath) /\ EndsWith(p, <<".json">>)}

ClientsInUse ==
  {provider.operations[o].client :
     o \in {q \in DOMAIN provider.operations : provider.operations[q].client # 0}}

C21_RoleAssumedOnce ==
  provider.role =>
    /\ provider.assumeRoleRequests <= 1
    /\ Cardinality(ClientsInUse) <= 1

\* ------------------------------------------------------------------------
\* C22: no step of push or pull removes an object of the bucket: the ID
\* objects and the tag objects of a project only grow in number, and an ID
\* that the store once had is still found by hasArtifactById.
\* ------------------------------------------------------------------------
C22_NothingRemoved ==
  [][\A p \in Projects :
       /\ IdObjectKeys(remote, p) \subseteq IdObjectKeys(remote', p)
       /\ TagObjectKeys(remote, p) \subseteq TagObjectKeys(remote', p)
       /\ Range(S3listIds(remote, p)) \subseteq Range(S3listIds(remote', p))
       /\ \A id \in {IdM1, IdM2} :
            hasArtifactById(remote, p, id) => hasArtifactById(remote', p, id)]_vars

\* a push has returned after another one: the bucket holds the ID objects of
\* both, and the tag of the first
C22_Witness ==
  \E c \in Clients :
    /\ DonePush(procs[c])
    /\ procs[c].outcome = "returned"
    /\ IdObjectKeys(procs[c].pre.remote, procs[c].project) # {}
    /\ TagObjectKeys(procs[c].pre.remote, procs[c].project) # {}
    /\ IdObjectKeys(procs[c].pre.remote, procs[c].project)
         # IdObjectKeys(remote, procs[c].project)

\* ------------------------------------------------------------------------
\* C23: when the directory given to push holds several candidate JSON
\* files, the search for the build info file does not fail: one of the
\* candidates is selected and push continues with it.
\* ------------------------------------------------------------------------
C23_SeveralCandidatesSelectOne ==
  (/\ applied.fn = "lookForBuildInfoJsonFile"
   /\ applied.arg \in DOMAIN Disk
   /\ Disk[applied.arg].type = "dir"
   /\ Cardinality(Candidates(applied.arg)) > 1) =>
    /\ applied.value.success
    /\ applied.value.value \in Candidates(applied.arg)

\* ------------------------------------------------------------------------
\* C24: uploadArtifact binds the tag last: once the copy to tags/<tag>.json
\* of an upload has been made, the object ids/<id>.json and the
\* original-content objects of the build info file and of every additional
\* artifact file of that upload are in the bucket.
\* ------------------------------------------------------------------------
TagBoundByUpload(call) ==
  /\ call.kind = "push"
  /\ Truthy(call.tag)
  /\ call.copyOrder > 0

OriginalContentKeys(call) ==
  {OriginalContentKey(call.project, call.artifactId, path) :
     path \in {call.buildInfoPath} \cup Range(Analyzed[call.artifactPath].value.additionalArtifactsPaths)}

C24_TagBoundAfterOriginals ==
  \A c \in Clients :
    TagBoundByUpload(procs[c]) =>
      /\ TagKey(procs[c].project, procs[c].tag) \in DOMAIN remote
      /\ IdKey(procs[c].project, procs[c].artifactId) \in DOMAIN remote
      /\ OriginalContentKeys(procs[c]) \subseteq DOMAIN remote

\* ------------------------------------------------------------------------
\* C30: a forced push does not check the tag: it never waits for
\* hasArtifactByTag and never ends with the error of that check.
\* ------------------------------------------------------------------------
C30_ForcedPushSkipsTagCheck ==
  \A c \in Clients :
    (procs[c].kind = "push" /\ procs[c].force) =>
      /\ procs[c].pc # "checkTag"
      /\ procs[c].error # "CliError: error checking if the tag exists"

\* ------------------------------------------------------------------------
\* C26: within one pull no two units write the same local file: the tags
\* downloaded are pairwise distinct, the IDs downloaded are pairwise
\* distinct, a tag unit writes <root>/<project>/tags/<tag>.json and an ID
\* unit <root>/<project>/ids/<id>.json.
\* ------------------------------------------------------------------------
TagUnitPaths(call) ==
  [i \in 1..Len(call.tagUnits) |-> LocalTagPath(call.project, call.tagUnits[i].key)]

IdUnitPaths(call) ==
  [i \in 1..Len(call.idUnits) |-> LocalIdPath(call.project, call.idUnits[i].key)]

PairwiseDistinct(seq) == \A i, j \in 1..Len(seq) : i # j => seq[i] # seq[j]

C26_UnitsWriteDistinctFiles ==
  \A c \in Clients :
    (procs[c].kind = "pull" /\ procs[c].pc = "download") =>
      /\ PairwiseDistinct(UnitKeys(procs[c].tagUnits))
      /\ PairwiseDistinct(UnitKeys(procs[c].idUnits))
      /\ PairwiseDistinct(TagUnitPaths(procs[c]) \o IdUnitPaths(procs[c]))

\* ------------------------------------------------------------------------
\* C25: the units of a pull do not depend on the order in which their steps
\* interleave: whatever the interleaving, the local store a pull leaves is
\* the one its units leave when they run one after the other in the order
\* they were started, each with the outcome it had (a fulfilled unit wrote
\* the bytes of its remote object, a rejected unit wrote nothing or left a
\* truncated file), and the pulled and failed lists are the keys of the
\* fulfilled and of the rejected units.
\* ------------------------------------------------------------------------
UnitsInOrder(call) ==
  [i \in 1..Len(call.tagUnits) |->
     [state |-> call.tagUnits[i].state, key |-> TagKey(call.project, call.tagUnits[i].key),
      path |-> LocalTagPath(call.project, call.tagUnits[i].key)]]
  \o [i \in 1..Len(call.idUnits) |->
        [state |-> call.idUnits[i].state, key |-> IdKey(call.project, call.idUnits[i].key),
         path |-> LocalIdPath(call.project, call.idUnits[i].key)]]

RECURSIVE RunInTurn(_, _, _, _, _)
RunInTurn(fs, units, i, bucket, truncated) ==
  IF i > Len(units) THEN fs
  ELSE RunInTurn(
         IF units[i].state = "fulfilled"
         THEN WriteFile(fs, units[i].path, bucket[units[i].key], "written")
         ELSE IF i \in truncated
         THEN WriteFile(fs, units[i].path, NoBytes, "partial")
         ELSE fs,
         units, i + 1, bucket, truncated)

C25_UnitsInAnyOrder ==
  \A c \in Clients :
    (DonePull(procs[c]) /\ procs[c].outcome = "returned" /\ procs[c].downloadCalls > 0) =>
      LET call == procs[c]
          units == UnitsInOrder(call)
          rejected == {i \in 1..Len(units) : units[i].state = "rejected"}
      IN /\ \E truncated \in SUBSET rejected :
              local = RunInTurn(ensureProjectSetup(call.pre.local, call.project), units, 1,
                                remote, truncated)
         /\ call.pulledTags = KeysInState(call.tagUnits, "fulfilled")
         /\ call.failedTags = KeysInState(call.tagUnits, "rejected")
         /\ call.pulledIds = KeysInState(call.idUnits, "fulfilled")
         /\ call.failedIds = KeysInState(call.idUnits, "rejected")

\* ------------------------------------------------------------------------
\* C27: the key of an original file is relative and free of collisions: the
\* path put after ids/<id>/original-content/ never starts with "/" or "./",
\* and two distinct original paths never get the same key.
\* ------------------------------------------------------------------------
PathInKey(key) ==
  SubSeq(key, Len(IdsPrefix(<<"demo">>) \o IdM1 \o <<"/", "original-content", "/">>) + 1, Len(key))

KeysRelative(keys) ==
  \A i \in 1..Len(keys) :
    /\ ~StartsWith(PathInKey(keys[i]), <<"/">>)
    /\ ~StartsWith(PathInKey(keys[i]), <<".", "/">>)

KeysDistinct(paths, keys) ==
  \A i, j \in 1..Len(paths) : paths[i] # paths[j] => keys[i] # keys[j]

C27_KeysRelativeAndDistinct ==
  applied.fn = "OriginalContentKey" =>
    /\ KeysRelative(applied.value)
    /\ KeysDistinct(applied.arg, applied.value)

\* ------------------------------------------------------------------------
\* C29: once the downloads of a pull have started, every rejected tag unit
\* has rejected with a PullTagError that carries the tag of the unit and
\* every rejected ID unit with a PullIdError that carries its id; the
\* "unexpected error" branches are never taken and the pull does not throw:
\* it returns, with the keys of the rejected units as its failed lists.
\* ------------------------------------------------------------------------
UnexpectedErrors ==
  {"CliError: unexpected error while pulling tags",
   "CliError: unexpected error while pulling IDs"}

RejectedWith(units, error(_)) ==
  \A i \in 1..Len(units) :
    units[i].state = "rejected" => units[i].reason = error(units[i].key)

C29_UnitsRejectWithTheirOwnError ==
  \A c \in Clients :
    Downloading(procs[c]) =>
      /\ RejectedWith(procs[c].tagUnits, PullTagError)
      /\ RejectedWith(procs[c].idUnits, PullIdError)
      /\ procs[c].outcome # "threw"
      /\ procs[c].error \notin UnexpectedErrors
      /\ procs[c].pc = "done" =>
           /\ procs[c].outcome = "returned"
           /\ procs[c].failedTags = KeysInState(procs[c].tagUnits, "rejected")
           /\ procs[c].failedIds = KeysInState(procs[c].idUnits, "rejected")

\* a pull has returned with a tag whose download was rejected and with an ID
\* whose write failed
C29_Witness ==
  \E c \in Clients :
    /\ DonePull(procs[c])
    /\ procs[c].outcome = "returned"
    /\ procs[c].failedTags # <<>>
    /\ procs[c].failedIds # <<>>
    /\ procs[c].faults = 1

\* C28: listIds returns exactly the ids whose ids/<id>.json object is stored,
\* each once, however many original-content objects are stored under the ids
C28_ListIdsExactlyTheStoredIds ==
  applied.fn = "listIds" =>
      /\ Range(applied.value) = {applied.arg[1], applied.arg[2]}
      /\ Len(applied.value) = 2

\* a call of push whose check of the tag was answered with an error of the store
TagCheckFailed(call) ==
  /\ DonePush(call)
  /\ call.error = "CliError: error checking if the tag exists"

\* C31: the existence checks answer false for a missing key and true for an
\* existing one, and throw every other error of the store; a push whose tag
\* check is answered with such an error throws the CliError of the tag check,
\* has called uploadArtifact not once and leaves the remote store as it was.
C31_ExistenceChecks ==
  /\ \A p \in Projects, key \in Tags \cup {IdM1, IdM2} :
       /\ hasArtifact(remote, TagKey(p, key), FALSE) = Ok(hasArtifactByTag(remote, p, key))
       /\ hasArtifact(remote, IdKey(p, key), FALSE) = Ok(hasArtifactById(remote, p, key))
       /\ ~hasArtifact(remote, TagKey(p, key), TRUE).success
       /\ ~hasArtifact(remote, IdKey(p, key), TRUE).success
  /\ \A c \in Clients :
       LET call == procs[c]
       IN /\ TagCheckFailed(call) =>
               /\ call.outcome = "threw"
               /\ call.uploadCalls = 0
               /\ remote = call.pre.remote
          /\ (call.kind = "push" /\ call.faults > 0 /\ call.uploadCalls = 0) =>
               TagCheckFailed(call)

C31_Witness ==
  \E c \in Clients :
    /\ TagCheckFailed(procs[c])
    /\ ~procs[c].force
    /\ procs[c].faults = 1
    /\ remote # <<>>

\* the keys of a listing of the local store as it was when the call listed it
LocalKeysAtStart(call, listing) ==
  IF listing.success THEN Range(listing.value) ELSE {}

\* the tags and the IDs a pull selects for download: the remote lists
\* resolved by the selector, without the keys present locally unless forced
SelectedTags(call) ==
  LET tagsToDownload == TagsToDownload(call.tag, call.remoteTags, call.remoteIds)
      atStart == ensureProjectSetup(call.pre.local, call.project)
  IN IF call.force THEN tagsToDownload
     ELSE Without(tagsToDownload,
                  LocalKeysAtStart(call, LocalListTags(atStart, call.project)))

SelectedIds(call) ==
  LET idsToDownload == IdsToDownload(call.tag, call.remoteTags, call.remoteIds)
      atStart == ensureProjectSetup(call.pre.local, call.project)
  IN IF call.force THEN idsToDownload
     ELSE Without(idsToDownload,
                  LocalKeysAtStart(call, LocalListIds(atStart, call.project)))

\* two lists share no key and hold together exactly the given keys
Partition(pulled, failed, selected) ==
  /\ Range(pulled) \cap Range(failed) = {}
  /\ Range(pulled) \cup Range(failed) = Range(selected)

ReturnedPull(call) == DonePull(call) /\ call.outcome = "returned"

\* C33: for every pull that returns, pulledTags and failedTags are disjoint
\* and hold together exactly the tags selected for download, the same for
\* pulledIds and failedIds; the four lists hold only listed remote keys, and
\* at most one key in total when a selector is given.
C33_PulledAndFailedPartitionSelected ==
  \A c \in Clients :
    LET call == procs[c]
    IN ReturnedPull(call) =>
         /\ Partition(call.pulledTags, call.failedTags, SelectedTags(call))
         /\ Partition(call.pulledIds, call.failedIds, SelectedIds(call))
         /\ Range(call.pulledTags) \cup Range(call.failedTags) \subseteq Range(call.remoteTags)
         /\ Range(call.pulledIds) \cup Range(call.failedIds) \subseteq Range(call.remoteIds)
         /\ Truthy(call.tag) =>
              Len(call.pulledTags) + Len(call.failedTags)
                + Len(call.pulledIds) + Len(call.failedIds) <= 1

\* the tag objects of a project with their bodies
TagBindings(bucket, project) ==
  [k \in TagObjectKeys(bucket, project) |-> bucket[k]]

\* C34: when push throws, at whatever step, the remote store holds no new and
\* no re-pointed tag: the tag objects are those of before the call.
C34_ThrowingPushBindsNoTag ==
  \A c \in Clients :
    LET call == procs[c]
    IN (DonePush(call) /\ call.outcome = "threw") =>
         TagBindings(remote, call.project) = TagBindings(call.pre.remote, call.project)

\* a pull without force and without selector that has made its selection,
\* after a pull of the same project that reported failures
RepeatedPull(call) ==
  /\ call.kind = "pull" /\ ~call.force /\ ~Truthy(call.tag)
  /\ call.pc = "download" \/ (call.pc = "done" /\ call.outcome = "returned")
  /\ call.lastFailed.tags # <<>> \/ call.lastFailed.ids # <<>>

\* C35: a tag or an ID the previous pull reported as failed, and that the
\* remote store still lists, is selected for download again by the next pull
\* without force.
C35_FailedKeysSelectedAgain ==
  \A c \in Clients :
    LET call == procs[c]
    IN RepeatedPull(call) =>
         /\ Range(call.lastFailed.tags) \cap Range(call.remoteTags)
              \subseteq Range(UnitKeys(call.tagUnits))
         /\ Range(call.lastFailed.ids) \cap Range(call.remoteIds)
              \subseteq Range(UnitKeys(call.idUnits))

\* a pull without selector that returned and reported no failure
CompletePull(call) ==
  /\ ReturnedPull(call)
  /\ ~Truthy(call.tag)
  /\ call.failedTags = <<>> /\ call.failedIds = <<>>

\* C36: after a pull without selector has returned with empty failedTags and
\* failedIds, every tag of its remoteTags and every ID of its remoteIds
\* exists in the local store of the project, with or without force.
C36_CompletePullLeavesAllLocal ==
  \A c \in Clients :
    LET call == procs[c]
    IN CompletePull(call) =>
         /\ \A tag \in Range(call.remoteTags) : hasTag(local, call.project, tag)
         /\ \A id \in Range(call.remoteIds) : hasId(local, call.project, id)

C36_Witness ==
  \E c \in Clients :
    /\ CompletePull(procs[c])
    /\ ~procs[c].force
    /\ procs[c].remoteTags # <<>>
    /\ procs[c].pulledIds # <<>>
    /\ procs[c].faults = 0
    /\ \A tag \in Range(procs[c].remoteTags) :
         local.files[LocalTagPath(procs[c].project, tag)]
           = remote[TagKey(procs[c].project, tag)]

\* a pull whose selector is both a listed remote tag and a listed remote ID,
\* once the selection is made
AmbiguousSelector(call) ==
  /\ call.kind = "pull" /\ Truthy(call.tag)
  /\ call.pc \in {"checkLocal", "download"} \/ (call.pc = "done" /\ call.outcome = "returned")
  /\ call.tag \in Range(call.remoteTags)
  /\ call.tag \in Range(call.remoteIds)

\* C37: a selector that is both a remote tag and a remote ID is resolved as
\* the tag only: the only units are units of that tag, no ID is downloaded or
\* reported, the local ID files stay as they were, and a pulled tag file is
\* the copy of the remote tag object.
C37_AmbiguousSelectorIsTheTag ==
  \A c \in Clients :
    LET call == procs[c]
        idsDir == LocalIdsDir(call.project) \o <<"/">>
    IN AmbiguousSelector(call) =>
         /\ call.idUnits = <<>>
         /\ Range(UnitKeys(call.tagUnits)) \subseteq {call.tag}
         /\ call.pulledIds = <<>> /\ call.failedIds = <<>>
         /\ \A path \in DOMAIN local.files \cup DOMAIN call.pre.local.files :
              StartsWith(path, idsDir) =>
                /\ path \in DOMAIN local.files \cap DOMAIN call.pre.local.files
                /\ local.files[path] = call.pre.local.files[path]
         /\ call.pulledTags # <<>> =>
              /\ call.pulledTags = << call.tag >>
              /\ local.files[LocalTagPath(call.project, call.tag)]
                   = remote[TagKey(call.project, call.tag)]

C37_Witness ==
  \E c \in Clients :
    /\ AmbiguousSelector(procs[c])
    /\ procs[c].pulledTags = << procs[c].tag >>
    /\ remote[TagKey(procs[c].project, procs[c].tag)]
         # remote[IdKey(procs[c].project, procs[c].tag)]

\* an application of mapBuildInfoToSokoArtifact that rebuilt an artifact from
\* a Forge default output
Reconstructed ==
  /\ applied.fn = "mapBuildInfoToSokoArtifact"
  /\ applied.value.success
  /\ applied.value.value.artifact.origin._format = FORGE_COMPILER_DEFAULT_OUTPUT_FORMAT

\* C38: when the reconstruction from a Forge default output succeeds, the
\* source paths of output.contracts of the artifact are exactly the paths the
\* manifest declares in source_id_to_path.
C38_ReconstructedPathsAreTheDeclaredOnes ==
  Reconstructed =>
    Range(Keys(applied.value.value.artifact.output.contracts)) = DeclaredPaths(applied.arg)

\* the remote objects and the local files of a project
RemoteObjectsOf(bucket, project) ==
  [k \in {key \in DOMAIN bucket : StartsWith(key, rootPath \o <<"/">> \o project \o <<"/">>)}
     |-> bucket[k]]

LocalFilesOf(fs, project) ==
  [f \in {path \in DOMAIN fs.files : StartsWith(path, ProjectDir(project) \o <<"/">>)}
     |-> fs.files[f]]

\* a project is left alone by a call: its remote objects, its remote lists
\* and its local files are those of before the call
LeftAlone(call, project) ==
  /\ RemoteObjectsOf(remote, project) = RemoteObjectsOf(call.pre.remote, project)
  /\ Range(S3listTags(remote, project)) = Range(S3listTags(call.pre.remote, project))
  /\ Range(S3listIds(remote, project)) = Range(S3listIds(call.pre.remote, project))
  /\ LocalFilesOf(local, project) = LocalFilesOf(call.pre.local, project)

\* C39: a push or a pull for a project leaves every other project alone: no
\* remote object and no local file of another project is created or changed,
\* and the remote lists of another project gain no tag and no ID.
C39_OtherProjectsLeftAlone ==
  \A c \in Clients :
    procs[c].kind \in {"push", "pull"} =>
      \A q \in ProjectNames \ {procs[c].project} : LeftAlone(procs[c], q)

\* the same for the projects whose names hold no "/"
PlainProjectsLeftAlone ==
  \A c \in Clients :
    (procs[c].kind \in {"push", "pull"} /\ procs[c].project \in { <<"demo">>, <<"lib">> }) =>
      \A q \in { <<"demo">>, <<"lib">> } \ {procs[c].project} : LeftAlone(procs[c], q)

\* verifyContract has returned after an attempt that failed
VerifyGaveUp ==
  /\ applied.fn = "verifyContract"
  /\ applied.value.pc = "returned"
  /\ applied.arg # <<>>
  /\ applied.arg[Len(applied.arg)] # Verified

\* C40: verifyContract makes at most 5 attempts, returns at the first one that
\* succeeds, goes on after an error only when its message holds 'does not
\* have bytecode' (and then waits), stops at the first other error that has a
\* message and reports it, and when it gives up it has reported the failure.
C40_VerifyContractRetries ==
  applied.fn = "verifyContract" =>
    /\ Len(applied.arg) <= Attempts
    /\ \A k \in 1..Len(applied.arg) :
         /\ applied.arg[k] = Verified => (k = Len(applied.arg) /\ applied.value.pc = "returned")
         /\ k < Len(applied.arg) =>
              (applied.arg[k] = <<>> \/ includes(applied.arg[k], " does not have bytecode"))
    /\ VerifyGaveUp => applied.value.console # <<>>

\* the same without the report of the last clause: the bound on the attempts
\* and the rule of the retries hold
VerifyContractLoop ==
  applied.fn = "verifyContract" =>
    /\ Len(applied.arg) <= Attempts
    /\ applied.value.waits =
         Cardinality({k \in 1..Len(applied.arg) :
                        applied.arg[k] # Verified /\ applied.arg[k] # <<>>
                        /\ includes(applied.arg[k], " does not have bytecode")})
    /\ \A k \in 1..Len(applied.arg) :
         (applied.arg[k] = Verified \/ (applied.arg[k] # <<>> /\ ~includes(applied.arg[k], " does not have bytecode")))
            => (k = Len(applied.arg) /\ applied.value.pc = "returned")

\* settled promises of the kinds the calls wrap
SettledPromises ==
  {Ok(TRUE), Ok(FALSE), Err("StoreError"), Err("FsError")}

====
